---- MODULE Spec2Model ----
(***************************************************************************)
(* Model of the script-to-audio pipeline of morgonradio:                   *)
(*   src/src/tts_generator.py       (PodcastGenerator)                     *)
(*   src/src/music_library.py       (MusicLibrary: cue extraction,         *)
(*                                   add_track, remove_track)              *)
(*   src/src/main.py                (MorgonPoddService.generate_episode,   *)
(*                                   combine_intro_and_main)               *)
(*   src/src/cloudflare_uploader.py (CloudflareUploader)                   *)
(*   src/src/scraper.py             (NewsScraper.scrape_all)               *)
(*   src/src/rss_generator.py       (RSSGenerator.generate_feed)           *)
(*                                                                         *)
(* A text is a sequence of one-character strings; "\n" separates lines.    *)
(* Python's None and '' are both falsy and the parser only tests the       *)
(* truthiness of current_speaker, so both are the empty sequence here.     *)
(***************************************************************************)
EXTENDS Integers, Sequences, FiniteSets, TLC

VARIABLES
  text,                 \* the script: output of create_podcast_script
  max_chars,            \* podcastSettings.textToDialogue.maxCharsPerChunk
  use_dialogue_api,     \* podcastSettings.textToDialogue.enabled
  pc,                   \* position of the run
  path,                 \* the synthesis path generate_audio took
  segments,             \* result of parse_conversation(text)
  music_cues,           \* result of extract_music_cues_from_script
  dialogue_inputs,      \* result of build_complete_dialogue_inputs
  dialogue_chunks,      \* chunks of split_dialogue_by_character_limit
  chunk_music_mapping,  \* mapping of split_dialogue_by_character_limit
  calls,                \* provider calls made so far: inputs and outcome
  chunk_files,          \* self._dialogue_chunk_files: content of each file
  output_file,          \* content of output_filename (NoFile: not written)
  track_file_exists,    \* os.path.exists(track['path']) of each track
  sequence,             \* assembly sequence of integrate_music_with_speech
  normalized_files,     \* normalized elements of the sequence so far
  norm_index,           \* elements of the sequence looked at so far
  stages,               \* stages of generate_episode completed, in order
  raised,               \* generate_episode has raised
  warnings,             \* what logger.warning has been called with, in order
  uploaded,             \* keys put into the bucket by this run
  combine_trace,        \* positions combine_intro_and_main has been at, in order
  combine_files,        \* content of the files combine_intro_and_main names
  combine_result,       \* the path combine_intro_and_main returned
  library,              \* MusicLibrary.library["tracks"]
  saved_library,        \* the tracks in music_library.json
  music_files,          \* files on disk: path -> content
  last_op,              \* the last call on the music library and its outcome
  sources,              \* NewsScraper.sources: the configured sources
  completed,            \* the scrape tasks that have ended, in the order they ended
  scrape_results,       \* what scrape_all returned
  meta_files,           \* the *_meta.json files of the episodes directory
  fg_entries,           \* the entries of RSSGenerator.fg
  feed_xml,             \* content of public/feed.xml
  feed_calls            \* calls of generate_feed on the instance so far

vars == << text, max_chars, use_dialogue_api, pc, path, segments, music_cues,
           dialogue_inputs, dialogue_chunks, chunk_music_mapping, calls,
           chunk_files, output_file, track_file_exists, sequence,
           normalized_files, norm_index, stages, raised,
           warnings, uploaded, combine_trace, combine_files, combine_result,
           library, saved_library, music_files, last_op,
           sources, completed, scrape_results,
           meta_files, fg_entries, feed_xml, feed_calls >>

combineVars == << combine_trace, combine_files, combine_result >>
libraryVars == << library, saved_library, music_files, last_op >>
scrapeVars == << sources, completed, scrape_results >>
feedVars == << meta_files, fg_entries, feed_xml, feed_calls >>

----------------------------------------------------------------------------
(* Characters and strings *)

NL == "\n"
SP == " "
IsSpace(c) == c = SP \/ c = NL

MinOf(S) == CHOOSE x \in S : \A y \in S : x <= y
MaxOf(S) == CHOOSE x \in S : \A y \in S : x >= y

Contains(s, c) == \E i \in 1..Len(s) : s[i] = c

\* str.strip()
Strip(s) ==
  LET ns == {i \in 1..Len(s) : ~IsSpace(s[i])}
  IN IF ns = {} THEN <<>> ELSE SubSeq(s, MinOf(ns), MaxOf(ns))

\* str.split(sep) for a one-character separator
RECURSIVE SplitOn(_, _)
SplitOn(s, sep) ==
  LET idx == {i \in 1..Len(s) : s[i] = sep}
  IN IF idx = {} THEN <<s>>
     ELSE LET i == MinOf(idx)
          IN <<SubSeq(s, 1, i - 1)>> \o SplitOn(SubSeq(s, i + 1, Len(s)), sep)

\* str.split(sep, 1) of a string that contains sep: <<before, after>>
SplitFirst(s, sep) ==
  LET i == MinOf({j \in 1..Len(s) : s[j] = sep})
  IN << SubSeq(s, 1, i - 1), SubSeq(s, i + 1, Len(s)) >>

\* sep.join(parts)
RECURSIVE JoinWith(_, _)
JoinWith(parts, sep) ==
  IF parts = <<>> THEN <<>>
  ELSE IF Len(parts) = 1 THEN parts[1]
  ELSE parts[1] \o <<sep>> \o JoinWith(Tail(parts), sep)

UPPER == <<"A","B","C","D","E","F","G","H","I","J","K","L","M",
           "N","O","P","Q","R","S","T","U","V","W","X","Y","Z">>
LOWER == <<"a","b","c","d","e","f","g","h","i","j","k","l","m",
           "n","o","p","q","r","s","t","u","v","w","x","y","z">>

LowerChar(c) ==
  IF \E i \in 1..Len(UPPER) : UPPER[i] = c
  THEN LOWER[CHOOSE i \in 1..Len(UPPER) : UPPER[i] = c]
  ELSE c

\* str.lower()
Lower(s) == [i \in 1..Len(s) |-> LowerChar(s[i])]

IsLetter(c) == \E i \in 1..Len(UPPER) : UPPER[i] = c \/ LOWER[i] = c

----------------------------------------------------------------------------
(* The music marker pattern  \[MUSIK:[^\]]+\]  *)

MUSIK_OPEN == <<"[","M","U","S","I","K",":">>
MUSIC_SPEAKER == <<"_","_","M","U","S","I","C","_","_">>

\* the pattern matches at position i of s
MarkerAt(s, i) ==
  /\ i + 8 <= Len(s)
  /\ SubSeq(s, i, i + 6) = MUSIK_OPEN
  /\ s[i + 7] # "]"
  /\ \E j \in (i + 8)..Len(s) : s[j] = "]"

\* last position of the match that starts at i
MarkerEnd(s, i) == MinOf({j \in (i + 8)..Len(s) : s[j] = "]"})

\* re.search(music_pattern, line)
music_pattern_search(line) == \E i \in 1..Len(line) : MarkerAt(line, i)

----------------------------------------------------------------------------
(* PodcastGenerator.parse_conversation *)

DialogueSegment(speaker, content_lines) ==
  [speaker |-> speaker, content |-> JoinWith(content_lines, SP), is_music |-> FALSE]

MusicSegment(line) ==
  [speaker |-> MUSIC_SPEAKER, content |-> line, is_music |-> TRUE]

\* "if current_speaker and current_content"
OpenSegment(current_speaker, current_content) ==
  current_speaker # <<>> /\ current_content # <<>>

\* the loop body over lines[k..], then the "save final segment" step
RECURSIVE ParseLoop(_, _, _, _, _)
ParseLoop(lines, k, segs, current_speaker, current_content) ==
  IF k > Len(lines)
  THEN IF OpenSegment(current_speaker, current_content)
       THEN Append(segs, DialogueSegment(current_speaker, current_content))
       ELSE segs
  ELSE
    LET line == Strip(lines[k])
        saved == IF OpenSegment(current_speaker, current_content)
                 THEN Append(segs, DialogueSegment(current_speaker, current_content))
                 ELSE segs
    IN IF line = <<>>
       THEN ParseLoop(lines, k + 1, segs, current_speaker, current_content)
       ELSE IF music_pattern_search(line)
       THEN ParseLoop(lines, k + 1, Append(saved, MusicSegment(line)), <<>>,
                      IF OpenSegment(current_speaker, current_content)
                      THEN <<>> ELSE current_content)
       ELSE IF Contains(line, ":") /\ line[1] # SP
       THEN LET parts == SplitFirst(line, ":")
            IN ParseLoop(lines, k + 1, saved, Strip(parts[1]),
                         IF Strip(parts[2]) # <<>> THEN <<Strip(parts[2])>> ELSE <<>>)
       ELSE ParseLoop(lines, k + 1, segs, current_speaker,
                      Append(current_content, line))

parse_conversation(t) == ParseLoop(SplitOn(t, NL), 1, <<>>, <<>>, <<>>)

----------------------------------------------------------------------------
(* PodcastGenerator.remove_music_markers *)

\* re.sub(r'\[MUSIK:[^\]]+\]', '', s), scanning from position i
RECURSIVE SubMarkers(_, _)
SubMarkers(s, i) ==
  IF i > Len(s) THEN <<>>
  ELSE IF MarkerAt(s, i) THEN SubMarkers(s, MarkerEnd(s, i) + 1)
  ELSE <<s[i]>> \o SubMarkers(s, i + 1)

\* last position of the whitespace run that follows position i (i if none)
WsRunEnd(s, i) == MaxOf({e \in i..Len(s) : \A k \in (i + 1)..e : IsSpace(s[k])})

\* re.sub(r'\n\s*\n', '\n\n', s), scanning from position i
RECURSIVE SubBlankLines(_, _)
SubBlankLines(s, i) ==
  IF i > Len(s) THEN <<>>
  ELSE LET nls == {m \in (i + 1)..WsRunEnd(s, i) : s[m] = NL}
       IN IF s[i] = NL /\ nls # {}
          THEN <<NL, NL>> \o SubBlankLines(s, MaxOf(nls) + 1)
          ELSE <<s[i]>> \o SubBlankLines(s, i + 1)

\* re.sub(r'  +', ' ', s), scanning from position i
RECURSIVE SubSpaces(_, _)
SubSpaces(s, i) ==
  IF i > Len(s) THEN <<>>
  ELSE IF s[i] = SP /\ i < Len(s) /\ s[i + 1] = SP
  THEN <<SP>> \o SubSpaces(s, MaxOf({e \in i..Len(s) : \A k \in i..e : s[k] = SP}) + 1)
  ELSE <<s[i]>> \o SubSpaces(s, i + 1)

remove_music_markers(t) ==
  Strip(SubSpaces(SubBlankLines(SubMarkers(t, 1), 1), 1))

----------------------------------------------------------------------------
(* PodcastGenerator.is_conversation_format *)

\* "':' in line and len(line.split(':', 1)) == 2": split(':', 1) of a line
\* that holds a colon always has two parts
CountsAsSpeakerLine(line) ==
  Contains(line, ":") /\ Len(SplitFirst(line, ":")) = 2

is_conversation_format(t) ==
  LET lines == SplitOn(t, NL)
  IN Cardinality({k \in 1..Len(lines) : CountsAsSpeakerLine(lines[k])}) > 1

----------------------------------------------------------------------------
(* PodcastGenerator.build_complete_dialogue_inputs *)

\* podcastSettings.hosts of sources.json: the two hosts of the show
hosts ==
  << [name |-> <<"A","n","n","a">>, voice_id |-> "voice_anna"],
     [name |-> <<"E","r","i","k">>, voice_id |-> "voice_erik"] >>

\* the first host whose name matches case-insensitively, else hosts[0]
VoiceFor(speaker) ==
  LET m == {h \in 1..Len(hosts) : Lower(hosts[h].name) = Lower(speaker)}
  IN IF m = {} THEN hosts[1].voice_id ELSE hosts[MinOf(m)].voice_id

DialogueInput(txt, voice_id) == [text |-> txt, voice_id |-> voice_id]

RECURSIVE BuildInputs(_, _)
BuildInputs(segs, k) ==
  IF k > Len(segs) THEN <<>>
  ELSE LET segment == segs[k]
           line == Strip(segment.content)
       IN IF segment.is_music \/ line = <<>>
          THEN BuildInputs(segs, k + 1)
          ELSE <<DialogueInput(line, VoiceFor(segment.speaker))>>
               \o BuildInputs(segs, k + 1)

build_complete_dialogue_inputs(t) == BuildInputs(parse_conversation(t), 1)

----------------------------------------------------------------------------
(* PodcastGenerator.split_dialogue_by_character_limit *)

\* lines 205-221: the dialogue count at each music segment of the original
RECURSIVE MusicPositions(_, _, _)
MusicPositions(segs, k, dialogue_count) ==
  IF k > Len(segs) THEN <<>>
  ELSE IF segs[k].is_music
  THEN <<dialogue_count>> \o MusicPositions(segs, k + 1, dialogue_count)
  ELSE MusicPositions(segs, k + 1, dialogue_count + 1)

music_positions_of(original_text) ==
  IF original_text # <<>>
  THEN MusicPositions(parse_conversation(original_text), 1, 0)
  ELSE <<>>

InSeq(x, s) == \E i \in 1..Len(s) : s[i] = x

\* the test of line 235 with the length of the next unit left out
StartsNewChunkIgnoresLength(current_chars, text_length, limit, should_break_for_music, current_chunk) ==
  ((current_chars > limit) \/ should_break_for_music)
  /\ current_chunk # <<>>

\* the test of line 235 without the music boundary
StartsNewChunkIgnoresMusic(current_chars, text_length, limit, should_break_for_music, current_chunk) ==
  (current_chars + text_length > limit) /\ current_chunk # <<>>

\* the test of line 235 true for every unit that follows another
StartsNewChunkAlways(current_chars, text_length, limit, should_break_for_music, current_chunk) ==
  current_chunk # <<>>

\* the test of line 235 without "and current_chunk"
StartsNewChunkWhenEmpty(current_chars, text_length, limit, should_break_for_music, current_chunk) ==
  (current_chars + text_length > limit) \/ should_break_for_music

\* line 235: the test that closes the current chunk
StartsNewChunk(current_chars, text_length, limit, should_break_for_music, current_chunk) ==
  ((current_chars + text_length > limit) \/ should_break_for_music)
  /\ current_chunk # <<>>

\* lines 228-249: the loop from unit k on (dialogue_index = k - 1)
RECURSIVE ChunkLoop(_, _, _, _, _, _, _)
ChunkLoop(D, k, limit, music_positions, chunks, current_chunk, current_chars) ==
  IF k > Len(D)
  THEN IF current_chunk # <<>> THEN Append(chunks, current_chunk) ELSE chunks
  ELSE LET text_length == Len(D[k].text)
           should_break_for_music == InSeq(k - 1, music_positions)
       IN IF StartsNewChunk(current_chars, text_length, limit,
                            should_break_for_music, current_chunk)
          THEN ChunkLoop(D, k + 1, limit, music_positions,
                         Append(chunks, current_chunk), <<D[k]>>, text_length)
          ELSE ChunkLoop(D, k + 1, limit, music_positions,
                         chunks, Append(current_chunk, D[k]), current_chars + text_length)

\* the loop without lines 248-249: the last chunk is never added
SplitChunksWithoutLast(D, limit, music_positions) ==
  LET chunks == ChunkLoop(D, 1, limit, music_positions, <<>>, <<>>, 0)
  IN SubSeq(chunks, 1, Len(chunks) - 1)

SplitChunks(D, limit, music_positions) ==
  ChunkLoop(D, 1, limit, music_positions, <<>>, <<>>, 0)

\* chunk_start of chunk c (0-based): the units before it
RECURSIVE ChunkStart(_, _)
ChunkStart(chunks, c) ==
  IF c = 0 THEN 0 ELSE ChunkStart(chunks, c - 1) + Len(chunks[c])

\* the music positions within s that lie in lo..hi, in order
RECURSIVE Within(_, _, _)
Within(s, lo, hi) ==
  IF s = <<>> THEN <<>>
  ELSE IF lo <= Head(s) /\ Head(s) <= hi
  THEN <<Head(s)>> \o Within(Tail(s), lo, hi)
  ELSE Within(Tail(s), lo, hi)

\* the mapping with chunk_end taken one unit too far
ChunkMusicMappingPastEnd(chunks, music_positions) ==
  LET entry(c) == Within(music_positions, ChunkStart(chunks, c),
                         ChunkStart(chunks, c) + Len(chunks[c + 1]))
  IN [c \in {c \in 0..(Len(chunks) - 1) : entry(c) # <<>>} |-> entry(c)]

\* lines 254-266: a dict; only chunks with at least one position get a key
ChunkMusicMapping(chunks, music_positions) ==
  LET entry(c) == Within(music_positions, ChunkStart(chunks, c),
                         ChunkStart(chunks, c) + Len(chunks[c + 1]) - 1)
  IN [c \in {c \in 0..(Len(chunks) - 1) : entry(c) # <<>>} |-> entry(c)]

split_dialogue_by_character_limit(D, limit, original_text) ==
  LET music_positions == music_positions_of(original_text)
      chunks == SplitChunks(D, limit, music_positions)
  IN [chunks |-> chunks,
      chunk_music_mapping |-> ChunkMusicMapping(chunks, music_positions)]

----------------------------------------------------------------------------
(* MusicLibrary.extract_music_cues_from_script *)

HEX == <<"0","1","2","3","4","5","6","7","8","9","a","b","c","d","e","f">>
IsHex(c) == \E i \in 1..Len(HEX) : HEX[i] = LowerChar(c)

\* self.library["tracks"]: the catalogue of the episode run
TRACK_ID == <<"a","1","b","2","c","3","d","4">>
TRACK_ID_2 == <<"0","0","0","0","b","e","e","f">>
library_tracks ==
  { [id |-> TRACK_ID, artist |-> <<"A","b","b","a">>, title |-> <<"S","o","s">>],
    [id |-> TRACK_ID_2, artist |-> <<"Y","e","s">>, title |-> <<"G","o">>] }

\* first position after the whitespace run that starts at j
SkipSpace(s, j) == MinOf({e \in j..(Len(s) + 1) : e = Len(s) + 1 \/ ~IsSpace(s[e])})

\* r'\[MUSIK:\s*([a-f0-9]{8})\]' with re.IGNORECASE matches at position i
IdMarkerAt(s, i) ==
  /\ i + 6 <= Len(s)
  /\ s[i] = "[" /\ Lower(SubSeq(s, i + 1, i + 6)) = Lower(SubSeq(MUSIK_OPEN, 2, 7))
  /\ LET j == SkipSpace(s, i + 7)
     IN /\ j + 8 <= Len(s)
        /\ \A k \in j..(j + 7) : IsHex(s[k])
        /\ s[j + 8] = "]"

IdMarkerGroup(s, i) == LET j == SkipSpace(s, i + 7) IN SubSeq(s, j, j + 7)
IdMarkerEnd(s, i) == SkipSpace(s, i + 7) + 8

\* re.findall(id_pattern, script, re.IGNORECASE)
RECURSIVE IdMatches(_, _)
IdMatches(s, i) ==
  IF i > Len(s) THEN <<>>
  ELSE IF IdMarkerAt(s, i)
  THEN <<IdMarkerGroup(s, i)>> \o IdMatches(s, IdMarkerEnd(s, i) + 1)
  ELSE IdMatches(s, i + 1)

TrackIds == { t.id : t \in library_tracks }

InLibrary(track_id) == \E t \in library_tracks : t.id = track_id
TrackOf(track_id) == CHOOSE t \in library_tracks : t.id = track_id

Cue(track) == [id |-> track.id, artist |-> track.artist, title |-> track.title]

\* lines 209-224: one cue per ID match that is in the library
RECURSIVE IdCues(_)
IdCues(ids) ==
  IF ids = <<>> THEN <<>>
  ELSE LET track_id == Lower(Head(ids))
       IN IF InLibrary(track_id)
          THEN <<Cue(TrackOf(track_id))>> \o IdCues(Tail(ids))
          ELSE IdCues(Tail(ids))

DIGITS == <<"0","1","2","3","4","5","6","7","8","9">>
IsDigit(c) == \E i \in 1..Len(DIGITS) : DIGITS[i] = c

SEKUNDE == <<"s","e","k","u","n","d","e">>

\* first position at or after j that holds no digit
DigitRunEnd(s, j) == MinOf({e \in j..(Len(s) + 1) : e = Len(s) + 1 \/ ~IsDigit(s[e])})

\* first position at or after j that holds one of the characters of cs
\* (Len(s) + 1: there is none)
FirstOf(s, j, cs) == MinOf({e \in j..(Len(s) + 1) : e = Len(s) + 1 \/ s[e] \in cs})

\* (?:,\s*(\d+(?:\.\d+)?)\s*sekunder?)?\] from the comma at t: the position
\* of the closing bracket, 0 when the pattern does not match there
LegacyDurationEnd(s, t) ==
  LET p == SkipSpace(s, t + 1)
  IN IF ~(p <= Len(s) /\ IsDigit(s[p])) THEN 0
     ELSE LET q == DigitRunEnd(s, p)
              q2 == IF q + 1 <= Len(s) /\ s[q] = "." /\ IsDigit(s[q + 1])
                    THEN DigitRunEnd(s, q + 1) ELSE q
              r == SkipSpace(s, q2)
          IN IF ~(r + 7 <= Len(s) /\ SubSeq(s, r, r + 6) = SEKUNDE) THEN 0
             ELSE IF s[r + 7] = "]" THEN r + 7
             ELSE IF s[r + 7] = "r" /\ r + 8 <= Len(s) /\ s[r + 8] = "]" THEN r + 8
             ELSE 0

\* r'\[MUSIK:\s*([^-]+?)\s*-\s*([^\],]+?)(?:,\s*(\d+(?:\.\d+)?)\s*sekunder?)?\]'
\* tried at position i: the first group runs to the first '-', whatever
\* stands before it; the second group runs to the first ']' or ','
LegacyMatchAt(s, i) ==
  LET none == [ok |-> FALSE, artist |-> <<>>, title |-> <<>>, last |-> i]
  IN IF ~(i + 6 <= Len(s) /\ SubSeq(s, i, i + 6) = MUSIK_OPEN) THEN none
     ELSE LET d == FirstOf(s, i + 7, {"-"})
          IN IF d > Len(s) \/ d = i + 7 THEN none
             ELSE LET t == FirstOf(s, d + 1, {"]", ","})
                  IN IF t > Len(s) \/ t = d + 1 THEN none
                     ELSE LET last == IF s[t] = "]" THEN t ELSE LegacyDurationEnd(s, t)
                          IN IF last = 0 THEN none
                             ELSE [ok |-> TRUE,
                                   \* lines 233-234: artist.strip(), title.strip()
                                   artist |-> Strip(SubSeq(s, i + 7, d - 1)),
                                   title |-> Strip(SubSeq(s, d + 1, t - 1)),
                                   last |-> last]

\* re.findall(artist_title_pattern, script)
RECURSIVE LegacyMatches(_, _)
LegacyMatches(s, i) ==
  IF i > Len(s) THEN <<>>
  ELSE LET m == LegacyMatchAt(s, i)
       IN IF m.ok THEN <<m>> \o LegacyMatches(s, m.last + 1)
          ELSE LegacyMatches(s, i + 1)

\* lines 238-242
LegacyMatching(m) ==
  { t \in library_tracks :
      Lower(t.artist) = Lower(m.artist) /\ Lower(t.title) = Lower(m.title) }

\* lines 246-254: the cue keeps the artist and title as written in the script
LegacyCue(m) ==
  [id |-> (CHOOSE t \in LegacyMatching(m) : TRUE).id,
   artist |-> m.artist, title |-> m.title]

\* lines 231-257
RECURSIVE LegacyCuesOf(_)
LegacyCuesOf(ms) ==
  IF ms = <<>> THEN <<>>
  ELSE IF LegacyMatching(Head(ms)) # {}
  THEN <<LegacyCue(Head(ms))>> \o LegacyCuesOf(Tail(ms))
  ELSE LegacyCuesOf(Tail(ms))

LegacyCues(script) == LegacyCuesOf(LegacyMatches(script, 1))

\* logger.warning of line 224 and of line 257
IdWarning(track_id) == [kind |-> "id_not_found", ref |-> <<track_id>>]
LegacyWarning(m) == [kind |-> "track_not_found", ref |-> <<m.artist, m.title>>]

RECURSIVE IdWarnings(_)
IdWarnings(ids) ==
  IF ids = <<>> THEN <<>>
  ELSE (IF InLibrary(Lower(Head(ids))) THEN <<>> ELSE <<IdWarning(Lower(Head(ids)))>>)
       \o IdWarnings(Tail(ids))

RECURSIVE LegacyWarnings(_)
LegacyWarnings(ms) ==
  IF ms = <<>> THEN <<>>
  ELSE (IF LegacyMatching(Head(ms)) # {} THEN <<>> ELSE <<LegacyWarning(Head(ms))>>)
       \o LegacyWarnings(Tail(ms))

extract_music_cues_from_script(script) ==
  LET cues == IdCues(IdMatches(script, 1))
  IN IF cues = <<>> THEN LegacyCues(script) ELSE cues

\* the warnings extract_music_cues_from_script logs, in order
extract_warnings(script) ==
  LET ids == IdMatches(script, 1)
  IN IdWarnings(ids)
     \o (IF IdCues(ids) = <<>> THEN LegacyWarnings(LegacyMatches(script, 1)) ELSE <<>>)

----------------------------------------------------------------------------
(* PodcastGenerator.integrate_music_with_speech: the assembly sequence *)

DialogueElement(i) == [type |-> "dialogue", chunk |-> i, id |-> <<>>]
MusicElement(cue) == [type |-> "music", chunk |-> -1, id |-> cue.id]

\* line 633: "i in [0, 1, 3]"
MusicAfterChunk(i) == i \in {0, 1, 3}

\* lines 619-642: the loop from chunk i (0-based) on
RECURSIVE SequenceLoop(_, _, _, _, _)
SequenceLoop(n_chunks, cues, file_exists, i, music_index) ==
  IF i >= n_chunks THEN <<>>
  ELSE IF music_index < Len(cues) /\ MusicAfterChunk(i)
  THEN <<DialogueElement(i)>>
       \o (IF file_exists[cues[music_index + 1].id]
           THEN <<MusicElement(cues[music_index + 1])>> ELSE <<>>)
       \o SequenceLoop(n_chunks, cues, file_exists, i + 1, music_index + 1)
  ELSE <<DialogueElement(i)>>
       \o SequenceLoop(n_chunks, cues, file_exists, i + 1, music_index)

\* the loop of line 622 started one chunk late
BuildSequenceFromSecond(n_chunks, cues, file_exists) ==
  SequenceLoop(n_chunks, cues, file_exists, 1, 0)

BuildSequence(n_chunks, cues, file_exists) ==
  SequenceLoop(n_chunks, cues, file_exists, 0, 0)

----------------------------------------------------------------------------
(* Scripts: what create_podcast_script may hand to the audio stage *)

LINE_ANNA    == <<"A","n","n","a",":"," ","H","e","j","!">>
LINE_ERIK    == <<"E","r","i","k",":"," ","G","o","d"," ","m","o","r","g","o","n","!">>
LINE_CONT    == <<"J","a">>
LINE_MUSIC   == <<"[","M","U","S","I","K",":"," ","a","1","b","2","c","3","d","4","]">>
LINE_MUSIC_2 == <<"[","M","U","S","I","K",":"," ","0","0","0","0","b","e","e","f","]">>
LINE_UNKNOWN == <<"[","M","U","S","I","K",":"," ","0","0","0","0","d","e","a","d","]">>
LINE_LEGACY  == <<"[","M","U","S","I","K",":"," ","y","e","s"," ","-"," ","G","O","]">>
LINE_LEGACY_UNKNOWN == <<"[","M","U","S","I","K",":"," ","X"," ","-"," ","Y","]">>
\* an opening '[MUSIK:' that no bracket closes
LINE_MALFORMED == <<"[","M","U","S","I","K",":"," ","a","1","b","2">>
LINE_BLANK   == <<>>
LINE_TIME    == <<"k","l"," ","7",":","3","0">>
LINE_INLINE  == <<"E","r","i","k",":"," ","H","e","j"," ",
                  "[","M","U","S","I","K",":"," ","a","1","b","2","c","3","d","4","]">>

\* longest script of the episode run, in lines
MaxLines == 3
\* longest script handed to the parser and the chunker alone, in lines
MaxTextLines == 3

PipelineLines ==
  {LINE_ANNA, LINE_ERIK, LINE_CONT, LINE_MUSIC, LINE_MUSIC_2, LINE_UNKNOWN}
TextLines ==
  PipelineLines \cup {LINE_BLANK, LINE_TIME, LINE_INLINE, LINE_MALFORMED}

LinesToText(ls) == JoinWith(ls, NL)

ScriptsOf(L, n) ==
  { LinesToText(ls) : ls \in UNION { [1..k -> L] : k \in 0..n } }

\* longest script handed to the cue extraction alone, in lines
MaxCueLines == 3
\* most chunk files the cues are assembled with
MaxCueChunks == 4

CueLines == {LINE_ANNA, LINE_MUSIC, LINE_UNKNOWN, LINE_LEGACY, LINE_LEGACY_UNKNOWN}

\* maxCharsPerChunk: below every unit, between the units, above every script
MaxCharsChoices == {1, 10, 1000}

NoFile == "NoFile"

----------------------------------------------------------------------------
(* Audio *)

\* what client.text_to_dialogue.convert(inputs=chunk) returns
ProviderAudio(chunk) == [kind |-> "dialogue", inputs |-> chunk, format |-> "mp3"]

\* one call of the provider: what was submitted and whether it returned audio
ProviderCall(inputs, ok) == [inputs |-> inputs, ok |-> ok]

MusicAudio(track_id) == [kind |-> "music", inputs |-> track_id, format |-> "mp3"]

\* ffmpeg -acodec pcm_s16le -ar 44100 -ac 2
Normalized(audio) == [audio EXCEPT !.format = "pcm_s16le_44100_2"]

\* a file is <<>> (not there) or <<content>>
Absent == <<>>
\* what a failed ffmpeg run may leave at its output path
Partial == [kind |-> "partial", inputs |-> <<>>, format |-> "none"]

\* the file an element of the assembly sequence names
ElementAudio(seg) ==
  IF seg.type = "dialogue" THEN chunk_files[seg.chunk + 1] ELSE MusicAudio(seg.id)

----------------------------------------------------------------------------
(* MorgonPoddService.generate_episode and PodcastGenerator.generate_audio *)

Idle ==
  /\ path = "none" /\ segments = <<>> /\ music_cues = <<>>
  /\ dialogue_inputs = <<>> /\ dialogue_chunks = <<>>
  /\ chunk_music_mapping = <<>> /\ calls = <<>> /\ chunk_files = <<>>
  /\ output_file = NoFile /\ sequence = <<>>
  /\ track_file_exists = [id \in TrackIds |-> FALSE]
  /\ normalized_files = <<>> /\ norm_index = 0 /\ stages = <<>>
  /\ raised = FALSE
  /\ warnings = <<>> /\ uploaded = {}

\* combine_intro_and_main has not been called
CombineIdle ==
  /\ combine_trace = <<>> /\ combine_files = <<>> /\ combine_result = NoFile

\* scrape_all has not been called
ScrapeIdle == sources = <<>> /\ completed = <<>> /\ scrape_results = <<>>

\* no feed is being generated
FeedIdle ==
  /\ meta_files = {} /\ fg_entries = <<>> /\ feed_xml = <<>> /\ feed_calls = 0

\* no music library is at work
LibraryIdle ==
  /\ library = <<>> /\ saved_library = <<>> /\ music_files = <<>>
  /\ last_op = <<>>

Init ==
  /\ text = <<>>
  /\ max_chars \in MaxCharsChoices
  /\ use_dialogue_api \in BOOLEAN
  /\ pc = "scrape"
  /\ Idle
  /\ ScrapeIdle
  /\ FeedIdle
  /\ CombineIdle
  /\ LibraryIdle

\* Step 1: scraper.scrape_all()
Scrape ==
  /\ pc = "scrape"
  /\ pc' = "script"
  /\ stages' = Append(stages, "scrape")
  /\ UNCHANGED << text, max_chars, use_dialogue_api, path, segments, music_cues,
                  dialogue_inputs, dialogue_chunks, chunk_music_mapping, calls,
                  chunk_files, output_file, track_file_exists, sequence,
                  normalized_files, norm_index, raised >>
  /\ UNCHANGED << warnings, uploaded, combineVars, libraryVars, scrapeVars, feedVars >>

\* Step 2: summarizer.create_podcast_script(scraped_data)
CreateScript ==
  /\ pc = "script"
  /\ text' \in ScriptsOf(PipelineLines, MaxLines)
  /\ pc' = "intro"
  /\ stages' = Append(stages, "script")
  /\ UNCHANGED << max_chars, use_dialogue_api, path, segments, music_cues,
                  dialogue_inputs, dialogue_chunks, chunk_music_mapping, calls,
                  chunk_files, output_file, track_file_exists, sequence,
                  normalized_files, norm_index, raised >>
  /\ UNCHANGED << warnings, uploaded, combineVars, libraryVars, scrapeVars, feedVars >>

\* Step 3a: intro_generator.generate_intro_audio / combine_with_jingle
Intro ==
  /\ pc = "intro"
  /\ pc' = "audio"
  /\ stages' = Append(stages, "intro")
  /\ UNCHANGED << text, max_chars, use_dialogue_api, path, segments, music_cues,
                  dialogue_inputs, dialogue_chunks, chunk_music_mapping, calls,
                  chunk_files, output_file, track_file_exists, sequence,
                  normalized_files, norm_index, raised >>
  /\ UNCHANGED << warnings, uploaded, combineVars, libraryVars, scrapeVars, feedVars >>

\* generate_audio lines 41-44 and, on the conversation path,
\* generate_conversation_audio lines 60-73 and generate_dialogue_audio
\* lines 93-111: everything up to the first provider call
GenerateAudio ==
  /\ pc = "audio"
  /\ IF is_conversation_format(text)
     THEN /\ music_cues' = extract_music_cues_from_script(text)
          /\ warnings' = warnings \o extract_warnings(text)
          /\ IF use_dialogue_api
             THEN LET clean_text == remove_music_markers(text)
                      inputs == build_complete_dialogue_inputs(clean_text)
                      split == split_dialogue_by_character_limit(inputs, max_chars, text)
                  IN /\ path' = "dialogue"
                     /\ dialogue_inputs' = inputs
                     /\ dialogue_chunks' = split.chunks
                     /\ chunk_music_mapping' = split.chunk_music_mapping
                     /\ pc' = "synth"
             ELSE /\ path' = "fallback"
                  /\ pc' = "fallback_synth"
                  /\ UNCHANGED << dialogue_inputs, dialogue_chunks, chunk_music_mapping >>
     ELSE /\ path' = "single"
          /\ pc' = "single_synth"
          /\ UNCHANGED << music_cues, dialogue_inputs, dialogue_chunks,
                          chunk_music_mapping, warnings >>
  /\ UNCHANGED << text, max_chars, use_dialogue_api, segments, calls, chunk_files,
                  output_file, track_file_exists, sequence, normalized_files,
                  norm_index, stages, raised >>
  /\ UNCHANGED << uploaded, combineVars, libraryVars, scrapeVars, feedVars >>

\* generate_audio returns output_filename to generate_episode
ReturnAudio ==
  /\ pc' = "combine"
  /\ stages' = Append(stages, "audio")

\* an exception leaves generate_audio (logged, re-raised) and generate_episode
RaiseFromAudio ==
  /\ pc' = "raised"
  /\ raised' = TRUE

\* the loop of line 119 taking the chunks from the last to the first
SynthesizeChunkOutOfOrder ==
  /\ pc = "synth"
  /\ Len(chunk_files) < Len(dialogue_chunks)
  /\ LET chunk == dialogue_chunks[Len(dialogue_chunks) - Len(chunk_files)]
     IN /\ calls' = Append(calls, ProviderCall(chunk, TRUE))
        /\ chunk_files' = Append(chunk_files, ProviderAudio(chunk))
  /\ UNCHANGED << text, max_chars, use_dialogue_api, pc, path, segments, music_cues,
                  dialogue_inputs, dialogue_chunks, chunk_music_mapping,
                  output_file, track_file_exists, sequence, normalized_files,
                  norm_index, stages, raised >>
  /\ UNCHANGED << warnings, uploaded, combineVars, libraryVars, scrapeVars, feedVars >>

\* lines 119-133, one iteration: the provider call for chunk i succeeds and
\* its audio is written to chunk_{i}.mp3
SynthesizeChunk ==
  /\ pc = "synth"
  /\ Len(chunk_files) < Len(dialogue_chunks)
  /\ LET chunk == dialogue_chunks[Len(chunk_files) + 1]
     IN /\ calls' = Append(calls, ProviderCall(chunk, TRUE))
        /\ chunk_files' = Append(chunk_files, ProviderAudio(chunk))
  /\ UNCHANGED << text, max_chars, use_dialogue_api, pc, path, segments, music_cues,
                  dialogue_inputs, dialogue_chunks, chunk_music_mapping,
                  output_file, track_file_exists, sequence, normalized_files,
                  norm_index, stages, raised >>
  /\ UNCHANGED << warnings, uploaded, combineVars, libraryVars, scrapeVars, feedVars >>

\* line 124 raises and a handler around the loop keeps what was synthesized
SynthesizeChunkFailsKeepsPartial ==
  /\ pc = "synth"
  /\ Len(chunk_files) < Len(dialogue_chunks)
  /\ calls' = Append(calls, ProviderCall(dialogue_chunks[Len(chunk_files) + 1], FALSE))
  /\ output_file' = chunk_files
  /\ ReturnAudio
  /\ UNCHANGED << text, max_chars, use_dialogue_api, path, segments, music_cues,
                  dialogue_inputs, dialogue_chunks, chunk_music_mapping,
                  chunk_files, track_file_exists, sequence, normalized_files,
                  norm_index, raised >>
  /\ UNCHANGED << warnings, uploaded, combineVars, libraryVars, scrapeVars, feedVars >>

\* line 124 raises: nothing catches it before generate_episode's handler
SynthesizeChunkFails ==
  /\ pc = "synth"
  /\ Len(chunk_files) < Len(dialogue_chunks)
  /\ calls' = Append(calls, ProviderCall(dialogue_chunks[Len(chunk_files) + 1], FALSE))
  /\ RaiseFromAudio
  /\ UNCHANGED << text, max_chars, use_dialogue_api, path, segments, music_cues,
                  dialogue_inputs, dialogue_chunks, chunk_music_mapping,
                  chunk_files, output_file, track_file_exists, sequence,
                  normalized_files, norm_index, stages >>
  /\ UNCHANGED << warnings, uploaded, combineVars, libraryVars, scrapeVars, feedVars >>

\* lines 136-147: the combined file; then generate_conversation_audio
\* lines 76-82
WriteCombined ==
  /\ pc = "synth"
  /\ Len(chunk_files) = Len(dialogue_chunks)
  /\ output_file' = chunk_files
  /\ IF music_cues # <<>>
     THEN pc' = "integrate" /\ UNCHANGED stages
     ELSE ReturnAudio
  /\ UNCHANGED << text, max_chars, use_dialogue_api, path, segments, music_cues,
                  dialogue_inputs, dialogue_chunks, chunk_music_mapping, calls,
                  chunk_files, track_file_exists, sequence, normalized_files,
                  norm_index, raised >>
  /\ UNCHANGED << warnings, uploaded, combineVars, libraryVars, scrapeVars, feedVars >>

\* integrate_music_with_speech lines 592-652; speech_file is output_file
\* here, so the early return copies nothing
IntegrateBuildSequence ==
  /\ pc = "integrate"
  /\ IF chunk_files = <<>>
     THEN /\ ReturnAudio
          /\ UNCHANGED << track_file_exists, sequence >>
     ELSE /\ \E file_exists \in [TrackIds -> BOOLEAN] :
               /\ track_file_exists' = file_exists
               /\ sequence' = BuildSequence(Len(chunk_files), music_cues, file_exists)
          /\ pc' = "normalize"
          /\ UNCHANGED stages
  /\ UNCHANGED << text, max_chars, use_dialogue_api, path, segments, music_cues,
                  dialogue_inputs, dialogue_chunks, chunk_music_mapping, calls,
                  chunk_files, output_file, normalized_files, norm_index, raised >>
  /\ UNCHANGED << warnings, uploaded, combineVars, libraryVars, scrapeVars, feedVars >>

\* logger.warning of line 678
FileNotFoundWarning(seg) == [kind |-> "file_not_found", ref |-> <<seg>>]

\* lines 660-661 and 677-678, one iteration: the file the element names is
\* not there; the element is passed over
NormalizeElementMissing ==
  /\ pc = "normalize"
  /\ norm_index < Len(sequence)
  /\ warnings' = Append(warnings, FileNotFoundWarning(sequence[norm_index + 1]))
  /\ norm_index' = norm_index + 1
  /\ UNCHANGED << text, max_chars, use_dialogue_api, pc, path, segments, music_cues,
                  dialogue_inputs, dialogue_chunks, chunk_music_mapping, calls,
                  chunk_files, output_file, track_file_exists, sequence,
                  normalized_files, stages, raised >>
  /\ UNCHANGED << uploaded, combineVars, libraryVars, scrapeVars, feedVars >>

\* lines 680-684: nothing was normalized; speech_file is output_file, so
\* nothing is copied
NoValidFiles ==
  /\ pc = "normalize"
  /\ norm_index = Len(sequence)
  /\ normalized_files = <<>>
  /\ ReturnAudio
  /\ UNCHANGED << text, max_chars, use_dialogue_api, path, segments, music_cues,
                  dialogue_inputs, dialogue_chunks, chunk_music_mapping, calls,
                  chunk_files, output_file, track_file_exists, sequence,
                  normalized_files, norm_index, raised >>
  /\ UNCHANGED << warnings, uploaded, combineVars, libraryVars, scrapeVars, feedVars >>

\* lines 660-676, one iteration: the element is copied and normalized
NormalizeElement ==
  /\ pc = "normalize"
  /\ norm_index < Len(sequence)
  /\ normalized_files' =
       Append(normalized_files, Normalized(ElementAudio(sequence[norm_index + 1])))
  /\ norm_index' = norm_index + 1
  /\ UNCHANGED << text, max_chars, use_dialogue_api, pc, path, segments, music_cues,
                  dialogue_inputs, dialogue_chunks, chunk_music_mapping, calls,
                  chunk_files, output_file, track_file_exists, sequence, stages,
                  raised >>
  /\ UNCHANGED << warnings, uploaded, combineVars, libraryVars, scrapeVars, feedVars >>

\* line 675 raises CalledProcessError: lines 736-744, speech only
NormalizeElementFails ==
  /\ pc = "normalize"
  /\ norm_index < Len(sequence)
  /\ ReturnAudio
  /\ UNCHANGED << text, max_chars, use_dialogue_api, path, segments, music_cues,
                  dialogue_inputs, dialogue_chunks, chunk_music_mapping, calls,
                  chunk_files, output_file, track_file_exists, sequence,
                  normalized_files, norm_index, raised >>
  /\ UNCHANGED << warnings, uploaded, combineVars, libraryVars, scrapeVars, feedVars >>

\* lines 687-734: the concatenation succeeds; the temporary directory and
\* self._dialogue_chunk_files are removed
Concatenate ==
  /\ pc = "normalize"
  /\ norm_index = Len(sequence)
  /\ normalized_files # <<>>
  /\ output_file' = <<[kind |-> "concat", inputs |-> normalized_files, format |-> "mp3"]>>
  /\ chunk_files' = <<>>
  /\ ReturnAudio
  /\ UNCHANGED << text, max_chars, use_dialogue_api, path, segments, music_cues,
                  dialogue_inputs, dialogue_chunks, chunk_music_mapping, calls,
                  track_file_exists, sequence, normalized_files, norm_index, raised >>
  /\ UNCHANGED << warnings, uploaded, combineVars, libraryVars, scrapeVars, feedVars >>

\* line 705 raises CalledProcessError: lines 736-744, speech only. ffmpeg
\* was given output_file, which is speech_file, as the file to write (-y):
\* it fails before it has opened that file or after, and line 741 copies
\* nothing since both paths are the same
ConcatenateFails ==
  /\ pc = "normalize"
  /\ norm_index = Len(sequence)
  /\ normalized_files # <<>>
  /\ \/ UNCHANGED output_file
     \/ output_file' = <<Partial>>
  /\ ReturnAudio
  /\ UNCHANGED << text, max_chars, use_dialogue_api, path, segments, music_cues,
                  dialogue_inputs, dialogue_chunks, chunk_music_mapping, calls,
                  chunk_files, track_file_exists, sequence,
                  normalized_files, norm_index, raised >>
  /\ UNCHANGED << warnings, uploaded, combineVars, libraryVars, scrapeVars, feedVars >>

\* generate_single_voice_audio: one provider call for the whole text
SingleVoice ==
  /\ pc = "single_synth"
  /\ \/ /\ calls' = Append(calls, ProviderCall(<<DialogueInput(text, "voice_default")>>, TRUE))
        /\ output_file' = <<[kind |-> "single", inputs |-> text, format |-> "mp3"]>>
        /\ ReturnAudio
        /\ UNCHANGED raised
     \/ /\ calls' = Append(calls, ProviderCall(<<DialogueInput(text, "voice_default")>>, FALSE))
        /\ RaiseFromAudio
        /\ UNCHANGED << output_file, stages >>
  /\ UNCHANGED << text, max_chars, use_dialogue_api, path, segments, music_cues,
                  dialogue_inputs, dialogue_chunks, chunk_music_mapping,
                  chunk_files, track_file_exists, sequence, normalized_files,
                  norm_index >>
  /\ UNCHANGED << warnings, uploaded, combineVars, libraryVars, scrapeVars, feedVars >>

\* generate_conversation_audio_fallback: segment-by-segment synthesis of the
\* cleaned text; with cues, integrate_music_with_speech finds no dialogue
\* chunks and copies the speech file
FallbackSynthesis ==
  /\ pc = "fallback_synth"
  /\ \/ /\ output_file' = <<[kind |-> "segments",
                            inputs |-> parse_conversation(remove_music_markers(text)),
                            format |-> "mp3"]>>
        /\ ReturnAudio
        /\ UNCHANGED raised
     \/ /\ RaiseFromAudio
        /\ UNCHANGED << output_file, stages >>
  /\ UNCHANGED << text, max_chars, use_dialogue_api, path, segments, music_cues,
                  dialogue_inputs, dialogue_chunks, chunk_music_mapping, calls,
                  chunk_files, track_file_exists, sequence, normalized_files,
                  norm_index >>
  /\ UNCHANGED << warnings, uploaded, combineVars, libraryVars, scrapeVars, feedVars >>

\* the stages of generate_episode after the audio stage, lines 71-91
NextStage(stage) ==
  CASE stage = "combine"  -> "metadata"
    [] stage = "metadata" -> "feed"
    [] stage = "feed"     -> "upload"
    [] stage = "upload"   -> "done"

LaterStage ==
  /\ pc \in {"combine", "metadata", "feed"}
  /\ stages' = Append(stages, pc)
  /\ pc' = NextStage(pc)
  /\ UNCHANGED << text, max_chars, use_dialogue_api, path, segments, music_cues,
                  dialogue_inputs, dialogue_chunks, chunk_music_mapping, calls,
                  chunk_files, output_file, track_file_exists, sequence,
                  normalized_files, norm_index, raised >>
  /\ UNCHANGED << warnings, uploaded, combineVars, libraryVars, scrapeVars, feedVars >>

\* lines 104-106: a stage call raises; generate_episode logs and re-raises
StageFails ==
  /\ pc \in {"scrape", "script", "intro", "metadata", "feed"}
  /\ pc' = "raised"
  /\ raised' = TRUE
  /\ UNCHANGED << text, max_chars, use_dialogue_api, path, segments, music_cues,
                  dialogue_inputs, dialogue_chunks, chunk_music_mapping, calls,
                  chunk_files, output_file, track_file_exists, sequence,
                  normalized_files, norm_index, stages >>
  /\ UNCHANGED << warnings, uploaded, combineVars, libraryVars, scrapeVars, feedVars >>

\* the steps of line 89-91 in order: upload_episode puts the audio (line 88
\* of cloudflare_uploader.py) and then the metadata (line 100), upload_feed
\* puts the feed (line 106), upload_static_files the static files
UploadSteps == << "upload", "upload_meta", "upload_feed", "upload_static" >>

\* the key upload_file puts at each step
UploadKey(step) ==
  CASE step = "upload"        -> "audio"
    [] step = "upload_meta"   -> "metadata"
    [] step = "upload_feed"   -> "feed"
    [] step = "upload_static" -> "static"

\* upload_file lines 64-76: put_object succeeds
UploadStep ==
  /\ \E k \in 1..Len(UploadSteps) :
       /\ pc = UploadSteps[k]
       /\ uploaded' = uploaded \cup {UploadKey(pc)}
       /\ IF k < Len(UploadSteps)
          THEN pc' = UploadSteps[k + 1] /\ UNCHANGED stages
          ELSE pc' = NextStage("upload") /\ stages' = Append(stages, "upload")
  /\ UNCHANGED << text, max_chars, use_dialogue_api, path, segments, music_cues,
                  dialogue_inputs, dialogue_chunks, chunk_music_mapping, calls,
                  chunk_files, output_file, track_file_exists, sequence,
                  normalized_files, norm_index, raised >>
  /\ UNCHANGED << warnings, combineVars, libraryVars, scrapeVars, feedVars >>

\* upload_file lines 78-80: put_object raises, upload_file logs and re-raises,
\* nothing removes what the steps before it have put
UploadStepFails ==
  /\ \E k \in 1..Len(UploadSteps) : pc = UploadSteps[k]
  /\ pc' = "raised"
  /\ raised' = TRUE
  /\ UNCHANGED << text, max_chars, use_dialogue_api, path, segments, music_cues,
                  dialogue_inputs, dialogue_chunks, chunk_music_mapping, calls,
                  chunk_files, output_file, track_file_exists, sequence,
                  normalized_files, norm_index, stages >>
  /\ UNCHANGED << warnings, uploaded, combineVars, libraryVars, scrapeVars, feedVars >>

Next ==
  \/ Scrape
  \/ CreateScript
  \/ Intro
  \/ GenerateAudio
  \/ SynthesizeChunk
  \/ SynthesizeChunkFails
  \/ WriteCombined
  \/ IntegrateBuildSequence
  \/ NormalizeElement
  \/ NormalizeElementMissing
  \/ NormalizeElementFails
  \/ NoValidFiles
  \/ Concatenate
  \/ ConcatenateFails
  \/ SingleVoice
  \/ FallbackSynthesis
  \/ LaterStage
  \/ StageFails
  \/ UploadStep
  \/ UploadStepFails

Spec == Init /\ [][Next]_vars

----------------------------------------------------------------------------
(* The parser and the chunker applied to a script on their own *)

InitText ==
  /\ text \in ScriptsOf(TextLines, MaxTextLines)
  /\ max_chars \in MaxCharsChoices
  /\ use_dialogue_api = TRUE
  /\ pc = "text"
  /\ Idle
  /\ ScrapeIdle
  /\ FeedIdle
  /\ CombineIdle
  /\ LibraryIdle

\* parse_conversation(text)
ParseText ==
  /\ pc = "text"
  /\ segments' = parse_conversation(text)
  /\ pc' = "parsed"
  /\ UNCHANGED << text, max_chars, use_dialogue_api, path, music_cues,
                  dialogue_inputs, dialogue_chunks, chunk_music_mapping, calls,
                  chunk_files, output_file, track_file_exists, sequence,
                  normalized_files, norm_index, stages, raised >>
  /\ UNCHANGED << warnings, uploaded, combineVars, libraryVars, scrapeVars, feedVars >>

\* generate_conversation_audio line 64 and generate_dialogue_audio
\* lines 102-109: clean, build the inputs, split
ChunkText ==
  /\ pc = "parsed"
  /\ LET clean_text == remove_music_markers(text)
         inputs == build_complete_dialogue_inputs(clean_text)
         split == split_dialogue_by_character_limit(inputs, max_chars, text)
     IN /\ dialogue_inputs' = inputs
        /\ dialogue_chunks' = split.chunks
        /\ chunk_music_mapping' = split.chunk_music_mapping
  /\ pc' = "chunked"
  /\ UNCHANGED << text, max_chars, use_dialogue_api, path, segments, music_cues,
                  calls, chunk_files, output_file, track_file_exists, sequence,
                  normalized_files, norm_index, stages, raised >>
  /\ UNCHANGED << warnings, uploaded, combineVars, libraryVars, scrapeVars, feedVars >>

NextText == ParseText \/ ChunkText

SpecText == InitText /\ [][NextText]_vars

----------------------------------------------------------------------------
(* MorgonPoddService.combine_intro_and_main *)

CombinePaths ==
  {"intro", "main", "intro_norm", "main_norm", "output", "intro_norm_fb", "main_norm_fb"}

\* intro_file: the voice alone or the voice over the jingle
IntroAudios ==
  { [kind |-> "intro_voice", inputs |-> <<>>, format |-> "mp3"],
    [kind |-> "intro_jingle", inputs |-> <<>>, format |-> "mp3"] }

\* main_file: what generate_audio returned
MainAudios ==
  { [kind |-> "single", inputs |-> <<>>, format |-> "mp3"],
    [kind |-> "dialogue", inputs |-> <<>>, format |-> "mp3"],
    [kind |-> "concat", inputs |-> <<>>, format |-> "mp3"] }

\* the subprocess.run calls of the try block (lines 128, 135, 152) and of
\* the fallback (lines 180, 186, 199), in order
TrySteps == << "norm_intro", "norm_main", "crossfade" >>
FallbackSteps == << "fb_norm_intro", "fb_norm_main", "fb_concat" >>

InSteps(steps, p) == \E k \in 1..Len(steps) : steps[k] = p
StepIndex(steps, p) == CHOOSE k \in 1..Len(steps) : steps[k] = p

\* the position combine_intro_and_main is at
CombinePos == combine_trace[Len(combine_trace)]

\* the path a step writes
StepOutput(p) ==
  CASE p = "norm_intro"    -> "intro_norm"
    [] p = "norm_main"     -> "main_norm"
    [] p = "crossfade"     -> "output"
    [] p = "fb_norm_intro" -> "intro_norm_fb"
    [] p = "fb_norm_main"  -> "main_norm_fb"
    [] p = "fb_concat"     -> "output"

\* what a step that succeeds writes there
StepWrites(p, files) ==
  CASE p = "norm_intro"    -> Normalized(files["intro"][1])
    [] p = "norm_main"     -> Normalized(files["main"][1])
    [] p = "crossfade"     -> [kind |-> "crossfade", format |-> "mp3",
                               inputs |-> <<files["intro_norm"][1], files["main_norm"][1]>>]
    [] p = "fb_norm_intro" -> Normalized(files["intro"][1])
    [] p = "fb_norm_main"  -> Normalized(files["main"][1])
    [] p = "fb_concat"     -> [kind |-> "concat", format |-> "mp3",
                               inputs |-> <<files["intro_norm_fb"][1], files["main_norm_fb"][1]>>]

\* a step that fails has written nothing or part of its output
AfterFailedStep(p, files) ==
  { files, [files EXCEPT ![StepOutput(p)] = <<Partial>>] }

CombineOtherVars ==
  << text, max_chars, use_dialogue_api, pc, path, segments, music_cues,
     dialogue_inputs, dialogue_chunks, chunk_music_mapping, calls,
     chunk_files, output_file, track_file_exists, sequence,
     normalized_files, norm_index, stages, raised, warnings, uploaded,
     scrapeVars, feedVars >>

\* generate_episode line 74: the call, with both files on disk
InitCombine ==
  /\ text = <<>>
  /\ max_chars = 1000
  /\ use_dialogue_api = TRUE
  /\ pc = "combine"
  /\ Idle
  /\ ScrapeIdle
  /\ FeedIdle
  /\ LibraryIdle
  /\ combine_trace = << TrySteps[1] >>
  /\ \E intro \in IntroAudios, main \in MainAudios :
       combine_files = [ f \in CombinePaths |->
                           IF f = "intro" THEN <<intro>>
                           ELSE IF f = "main" THEN <<main>> ELSE Absent ]
  /\ combine_result = NoFile

\* a subprocess.run call returns with exit status 0: lines 128-166 and
\* lines 180-213
ToolReturns ==
  /\ \E steps \in {TrySteps, FallbackSteps} :
       /\ InSteps(steps, CombinePos)
       /\ combine_files' =
            [combine_files EXCEPT ![StepOutput(CombinePos)] =
               <<StepWrites(CombinePos, combine_files)>>]
       /\ IF StepIndex(steps, CombinePos) < Len(steps)
          THEN /\ combine_trace' =
                    Append(combine_trace, steps[StepIndex(steps, CombinePos) + 1])
               /\ UNCHANGED combine_result
          ELSE /\ combine_trace' = Append(combine_trace, "returned")
               /\ combine_result' = "output"
  /\ UNCHANGED CombineOtherVars
  /\ UNCHANGED libraryVars

\* a subprocess.run call of the try block raises CalledProcessError:
\* lines 168-172
TryFails ==
  /\ InSteps(TrySteps, CombinePos)
  /\ combine_files' \in AfterFailedStep(CombinePos, combine_files)
  /\ combine_trace' = Append(combine_trace, FallbackSteps[1])
  /\ UNCHANGED combine_result
  /\ UNCHANGED CombineOtherVars
  /\ UNCHANGED libraryVars

\* a subprocess.run call of the fallback raises and the error reaches the
\* caller
FallbackFailsRaises ==
  /\ InSteps(FallbackSteps, CombinePos)
  /\ combine_files' \in AfterFailedStep(CombinePos, combine_files)
  /\ combine_trace' = Append(combine_trace, "raised")
  /\ UNCHANGED combine_result
  /\ UNCHANGED CombineOtherVars
  /\ UNCHANGED libraryVars

\* a subprocess.run call of the fallback raises and the output path is
\* returned all the same
FallbackFailsReturnsOutput ==
  /\ InSteps(FallbackSteps, CombinePos)
  /\ combine_files' \in AfterFailedStep(CombinePos, combine_files)
  /\ combine_trace' = Append(combine_trace, "returned")
  /\ combine_result' = "output"
  /\ UNCHANGED CombineOtherVars
  /\ UNCHANGED libraryVars

\* a subprocess.run call of the fallback raises: lines 214-215
FallbackFails ==
  /\ InSteps(FallbackSteps, CombinePos)
  /\ combine_files' \in AfterFailedStep(CombinePos, combine_files)
  /\ combine_trace' = Append(combine_trace, "speech_only")
  /\ UNCHANGED combine_result
  /\ UNCHANGED CombineOtherVars
  /\ UNCHANGED libraryVars

\* line 216: return main_file
ReturnMain ==
  /\ CombinePos = "speech_only"
  /\ combine_trace' = Append(combine_trace, "returned")
  /\ combine_result' = "main"
  /\ UNCHANGED combine_files
  /\ UNCHANGED CombineOtherVars
  /\ UNCHANGED libraryVars

\* subprocess.run is called without timeout: a process that never exits
\* keeps the call, and with it the run, where it is
ToolHangs ==
  /\ InSteps(TrySteps, CombinePos) \/ InSteps(FallbackSteps, CombinePos)
  /\ combine_trace' = Append(combine_trace, "hung")
  /\ UNCHANGED << combine_files, combine_result >>
  /\ UNCHANGED CombineOtherVars
  /\ UNCHANGED libraryVars

NextCombine ==
  \/ ToolReturns
  \/ TryFails
  \/ FallbackFails
  \/ ReturnMain
  \/ ToolHangs

\* the call runs on: Python goes from one statement to the next
SpecCombine == InitCombine /\ [][NextCombine]_vars /\ WF_vars(NextCombine)

----------------------------------------------------------------------------
(* The cue extraction and the assembly sequence applied to a script *)

InitCues ==
  /\ text \in ScriptsOf(CueLines, MaxCueLines)
  /\ max_chars = 1000
  /\ use_dialogue_api = TRUE
  /\ pc = "cues"
  /\ Idle
  /\ ScrapeIdle
  /\ FeedIdle
  /\ CombineIdle
  /\ LibraryIdle

\* generate_conversation_audio line 60
ExtractCues ==
  /\ pc = "cues"
  /\ music_cues' = extract_music_cues_from_script(text)
  /\ warnings' = warnings \o extract_warnings(text)
  /\ pc' = "extracted"
  /\ UNCHANGED << text, max_chars, use_dialogue_api, path, segments,
                  dialogue_inputs, dialogue_chunks, chunk_music_mapping, calls,
                  chunk_files, output_file, track_file_exists, sequence,
                  normalized_files, norm_index, stages, raised >>
  /\ UNCHANGED << uploaded, combineVars, libraryVars, scrapeVars, feedVars >>

\* integrate_music_with_speech lines 592-642 with n chunk files at hand
AssembleCues ==
  /\ pc = "extracted"
  /\ music_cues # <<>>
  /\ \E n \in 1..MaxCueChunks, file_exists \in [TrackIds -> BOOLEAN] :
       /\ track_file_exists' = file_exists
       /\ sequence' = BuildSequence(n, music_cues, file_exists)
  /\ pc' = "assembled"
  /\ UNCHANGED << text, max_chars, use_dialogue_api, path, segments, music_cues,
                  dialogue_inputs, dialogue_chunks, chunk_music_mapping, calls,
                  chunk_files, output_file, normalized_files, norm_index, stages,
                  raised >>
  /\ UNCHANGED << warnings, uploaded, combineVars, libraryVars, scrapeVars, feedVars >>

NextCues == ExtractCues \/ AssembleCues

SpecCues == InitCues /\ [][NextCues]_vars

----------------------------------------------------------------------------
(* The music library: add_track and remove_track *)

\* calls of add_track and remove_track in one behaviour
MaxOps == 3

\* no entry under a key of library["tracks"]
NoTrack == <<>>

\* audio files as byte strings
Contents == { <<1>>, <<2, 2>>, <<3>> }

\* lines 63-69: the first 8 of the 32 hex digits of the MD5 of the bytes;
\* two different contents may share them
calculate_md5(content) == IF content = <<2, 2>> THEN TRACK_ID_2 ELSE TRACK_ID

Extensions == {".mp3", ".wav"}

\* the files add_track is called with
SourcePaths ==
  { [dir |-> "in", stem |-> <<"a">>, ext |-> ".mp3"],
    [dir |-> "in", stem |-> <<"b">>, ext |-> ".wav"] }

\* lines 97-99: new_path = self.music_dir / f"{track_id}{file_extension}"
ManagedPath(track_id, ext) == [dir |-> "music", stem |-> track_id, ext |-> ext]

ManagedPaths == { ManagedPath(id, e) : id \in TrackIds, e \in Extensions }

LibraryPaths == SourcePaths \cup ManagedPaths

NoPath == [dir |-> "", stem |-> <<>>, ext |-> ""]

\* what a copy that fails on the way leaves at its destination
Truncated(content) == SubSeq(content, 1, Len(content) - 1)

\* lines 105-117: the entry add_track writes; now stands for datetime.now()
track_metadata(track_id, artist, title, new_path, now) ==
  [ id |-> track_id, artist |-> artist, title |-> title,
    filename |-> << new_path.stem, new_path.ext >>, path |-> new_path,
    added_at |-> now, file_size |-> Len(music_files'[new_path][1]) ]

NoTracks == [id \in TrackIds |-> NoTrack]

\* lines 71-78: the file is written whole, or open() fails and it stays as it
\* was, or json.dump fails after open() has emptied it; the error is logged
\* and not raised
save_library(tracks) ==
  { << [tracks |-> tracks, whole |-> TRUE] >>,
    saved_library,
    << [tracks |-> NoTracks, whole |-> FALSE] >> }

\* the call before this one, without its own history
Summary(op) ==
  [ op |-> op.op, file_path |-> op.file_path, artist |-> op.artist,
    content |-> op.content, track_id |-> op.track_id,
    returned |-> op.returned, raised |-> op.raised ]

NoOp ==
  [ op |-> "none", file_path |-> NoPath, artist |-> <<>>, content |-> Absent,
    track_id |-> <<>>, returned |-> <<>>, raised |-> FALSE ]

\* the record of a call: its arguments and how it ended
Call(op, file_path, artist, track_id, returned, has_raised) ==
  [ n |-> last_op.n + 1, op |-> op, file_path |-> file_path,
    artist |-> artist,
    content |-> IF file_path = NoPath THEN Absent ELSE music_files[file_path],
    track_id |-> track_id, returned |-> returned, raised |-> has_raised,
    prev |-> Summary(last_op) ]

LibraryOtherVars == << CombineOtherVars, combineVars >>

\* MusicLibrary() where no music_library.json exists: load_library returns
\* no tracks; the music directory is empty
InitLibrary ==
  /\ text = <<>>
  /\ max_chars = 1000
  /\ use_dialogue_api = TRUE
  /\ pc = "library"
  /\ Idle
  /\ ScrapeIdle
  /\ FeedIdle
  /\ CombineIdle
  /\ library = NoTracks
  /\ saved_library = <<>>
  /\ music_files \in
       { f \in [LibraryPaths -> {Absent} \cup { <<c>> : c \in Contents }] :
           \A p \in ManagedPaths : f[p] = Absent }
  /\ last_op =
       [ n |-> 0, op |-> "none", file_path |-> NoPath, artist |-> <<>>,
         content |-> Absent, track_id |-> <<>>, returned |-> <<>>,
         raised |-> FALSE, prev |-> NoOp ]

\* lines 85-86: FileNotFoundError
AddTrackFileNotFound(file_path, who) ==
  /\ last_op.n < MaxOps
  /\ music_files[file_path] = Absent
  /\ last_op' = Call("add", file_path, who.artist, <<>>, <<>>, TRUE)
  /\ UNCHANGED << library, saved_library, music_files >>
  /\ UNCHANGED LibraryOtherVars

\* add_track that copies and writes the entry whether the ID is known or not
AddTrackExistsOverwrites(file_path, who) ==
  LET track_id == calculate_md5(music_files[file_path][1])
      new_path == ManagedPath(track_id, file_path.ext)
  IN  /\ last_op.n < MaxOps
      /\ music_files[file_path] # Absent
      /\ library[track_id] # NoTrack
      /\ music_files' = [music_files EXCEPT ![new_path] = music_files[file_path]]
      /\ library' = [library EXCEPT ![track_id] =
           << track_metadata(track_id, who.artist, who.title, new_path,
                             last_op.n + 1) >>]
      /\ saved_library' \in save_library(library')
      /\ last_op' = Call("add", file_path, who.artist, track_id, <<track_id>>, FALSE)
      /\ UNCHANGED LibraryOtherVars

\* lines 89-94: the ID is in the library already, it is returned
AddTrackExists(file_path, who) ==
  LET track_id == calculate_md5(music_files[file_path][1])
  IN  /\ last_op.n < MaxOps
      /\ music_files[file_path] # Absent
      /\ library[track_id] # NoTrack
      /\ last_op' = Call("add", file_path, who.artist, track_id, <<track_id>>, FALSE)
      /\ UNCHANGED << library, saved_library, music_files >>
      /\ UNCHANGED LibraryOtherVars

\* add_track that writes the entry before it copies the file
AddTrackCopyFailsRegistered(file_path, who) ==
  LET track_id == calculate_md5(music_files[file_path][1])
      new_path == ManagedPath(track_id, file_path.ext)
  IN  /\ last_op.n < MaxOps
      /\ music_files[file_path] # Absent
      /\ library[track_id] = NoTrack
      /\ music_files' = [music_files EXCEPT ![new_path] =
                           << Truncated(music_files[file_path][1]) >>]
      /\ library' = [library EXCEPT ![track_id] =
           << track_metadata(track_id, who.artist, who.title, new_path,
                             last_op.n + 1) >>]
      /\ saved_library' \in save_library(library')
      /\ last_op' = Call("add", file_path, who.artist, track_id, <<>>, TRUE)
      /\ UNCHANGED LibraryOtherVars

\* line 101: shutil.copy2 raises; the destination may hold a part of the file
AddTrackCopyFails(file_path, who) ==
  LET track_id == calculate_md5(music_files[file_path][1])
      new_path == ManagedPath(track_id, file_path.ext)
  IN  /\ last_op.n < MaxOps
      /\ music_files[file_path] # Absent
      /\ library[track_id] = NoTrack
      /\ \/ UNCHANGED music_files
         \/ music_files' = [music_files EXCEPT ![new_path] =
                              << Truncated(music_files[file_path][1]) >>]
      /\ last_op' = Call("add", file_path, who.artist, track_id, <<>>, TRUE)
      /\ UNCHANGED << library, saved_library >>
      /\ UNCHANGED LibraryOtherVars

\* lines 96-123: the file is copied, the entry written, the library saved
AddTrack(file_path, who) ==
  LET track_id == calculate_md5(music_files[file_path][1])
      new_path == ManagedPath(track_id, file_path.ext)
  IN  /\ last_op.n < MaxOps
      /\ music_files[file_path] # Absent
      /\ library[track_id] = NoTrack
      /\ music_files' = [music_files EXCEPT ![new_path] = music_files[file_path]]
      /\ library' = [library EXCEPT ![track_id] =
           << track_metadata(track_id, who.artist, who.title, new_path,
                             last_op.n + 1) >>]
      /\ saved_library' \in save_library(library')
      /\ last_op' = Call("add", file_path, who.artist, track_id, <<track_id>>, FALSE)
      /\ UNCHANGED LibraryOtherVars

\* lines 154-155: the ID is not in the library
RemoveTrackUnknown(track_id) ==
  /\ last_op.n < MaxOps
  /\ library[track_id] = NoTrack
  /\ last_op' = Call("remove", NoPath, <<>>, track_id, <<FALSE>>, FALSE)
  /\ UNCHANGED << library, saved_library, music_files >>
  /\ UNCHANGED LibraryOtherVars

\* lines 160-161: the file is there and os.remove raises (no permission, a
\* directory at the path); nothing catches it, lines 165-169 do not run
RemoveTrackFileUndeletable(track_id) ==
  /\ last_op.n < MaxOps
  /\ library[track_id] # NoTrack
  /\ music_files[library[track_id][1].path] # Absent
  /\ last_op' = Call("remove", NoPath, <<>>, track_id, <<>>, TRUE)
  /\ UNCHANGED << library, saved_library, music_files >>
  /\ UNCHANGED LibraryOtherVars

\* lines 157-169: the file is removed if it is there, then the entry
RemoveTrack(track_id) ==
  /\ last_op.n < MaxOps
  /\ library[track_id] # NoTrack
  /\ music_files' = [music_files EXCEPT ![library[track_id][1].path] = Absent]
  /\ library' = [library EXCEPT ![track_id] = NoTrack]
  /\ saved_library' \in save_library(library')
  /\ last_op' = Call("remove", NoPath, <<>>, track_id, <<TRUE>>, FALSE)
  /\ UNCHANGED LibraryOtherVars

\* line 160 tests os.path.exists: a file of the music directory may have been
\* deleted by hand between two calls
ManagedFileLost(file_path) ==
  /\ music_files[file_path] # Absent
  /\ music_files' = [music_files EXCEPT ![file_path] = Absent]
  /\ UNCHANGED << library, saved_library, last_op >>
  /\ UNCHANGED LibraryOtherVars

NextLibrary ==
  \/ \E file_path \in SourcePaths, who \in library_tracks :
       \/ AddTrackFileNotFound(file_path, who)
       \/ AddTrackExists(file_path, who)
       \/ AddTrackCopyFails(file_path, who)
       \/ AddTrack(file_path, who)
  \/ \E track_id \in TrackIds :
       \/ RemoveTrackUnknown(track_id)
       \/ RemoveTrackFileUndeletable(track_id)
       \/ RemoveTrack(track_id)
  \/ \E file_path \in ManagedPaths : ManagedFileLost(file_path)

SpecLibrary == InitLibrary /\ [][NextLibrary]_vars

----------------------------------------------------------------------------
(* NewsScraper.scrape_all *)

\* most sources configured
MaxSources == 3

\* the 'priority' of a source of sources.json: <<>> when the key is absent
SourcePriorities == { <<>>, <<1>>, <<2>> }

\* source.get('priority', 3), lines 456 and 548
PriorityOf(source) == IF source.priority = <<>> THEN 3 ELSE source.priority[1]

\* lines 455-461 and 545-552: the result of a source that was fetched
scraped_result(source) ==
  [ source |-> source.name, priority |-> << PriorityOf(source) >>,
    items |-> << source.name >>, error |-> FALSE ]

\* lines 554-560: no 'priority' key
create_empty_result(source) ==
  [ source |-> source.name, priority |-> <<>>, items |-> <<>>, error |-> TRUE ]

\* line 666: x.get('priority', 99)
SortKey(result) == IF result.priority = <<>> THEN 99 ELSE result.priority[1]

\* list.sort(key=...) is stable: the results in ascending key, equal keys in
\* the order they had
RECURSIVE SortByKey(_)
SortByKey(results) ==
  IF results = <<>> THEN <<>>
  ELSE LET least == MinOf({ SortKey(results[i]) : i \in 1..Len(results) })
           first == MinOf({ i \in 1..Len(results) : SortKey(results[i]) = least })
       IN << results[first] >>
          \o SortByKey(SubSeq(results, 1, first - 1)
                       \o SubSeq(results, first + 1, Len(results)))

\* the tasks of line 662 that have not ended
Pending == (1..Len(sources)) \ { completed[k].task : k \in 1..Len(completed) }

\* the result of task i
ResultOf(i) ==
  LET k == CHOOSE k \in 1..Len(completed) : completed[k].task = i
  IN IF completed[k].ok THEN scraped_result(sources[i])
     ELSE create_empty_result(sources[i])

ScrapeOtherVars ==
  << text, max_chars, use_dialogue_api, path, segments, music_cues,
     dialogue_inputs, dialogue_chunks, chunk_music_mapping, calls,
     chunk_files, output_file, track_file_exists, sequence,
     normalized_files, norm_index, stages, raised, warnings, uploaded,
     combineVars, libraryVars, feedVars >>

\* scrape_all is called: line 662 has made one task per source
InitScrape ==
  /\ text = <<>>
  /\ max_chars = 1000
  /\ use_dialogue_api = TRUE
  /\ pc = "gather"
  /\ Idle
  /\ CombineIdle
  /\ LibraryIdle
  /\ FeedIdle
  /\ \E n \in 1..MaxSources :
       \E prio \in [1..n -> SourcePriorities] :
         sources = [i \in 1..n |-> [name |-> i, priority |-> prio[i]]]
  /\ completed = <<>>
  /\ scrape_results = <<>>

\* scrape_source of one task returns what it scraped
TaskScrapes(i) ==
  /\ pc = "gather"
  /\ i \in Pending
  /\ completed' = Append(completed, [task |-> i, ok |-> TRUE])
  /\ UNCHANGED << pc, sources, scrape_results >>
  /\ UNCHANGED ScrapeOtherVars

\* lines 48-50: the fetch fails or runs into the timeout of line 43,
\* fetch_url returns "" and lines 367 and 472 return create_empty_result
TaskFetchFails(i) ==
  /\ pc = "gather"
  /\ i \in Pending
  /\ completed' = Append(completed, [task |-> i, ok |-> FALSE])
  /\ UNCHANGED << pc, sources, scrape_results >>
  /\ UNCHANGED ScrapeOtherVars

\* lines 663-682: asyncio.gather returns the results in the order of the
\* tasks once all have ended; they are sorted and returned
Gather ==
  /\ pc = "gather"
  /\ Pending = {}
  /\ scrape_results' = SortByKey([i \in 1..Len(sources) |-> ResultOf(i)])
  /\ pc' = "scraped"
  /\ UNCHANGED << sources, completed >>
  /\ UNCHANGED ScrapeOtherVars

NextScrape ==
  \/ \E i \in 1..Len(sources) : TaskScrapes(i) \/ TaskFetchFails(i)
  \/ Gather

SpecScrape == InitScrape /\ [][NextScrape]_vars

----------------------------------------------------------------------------
(* RSSGenerator.generate_feed on the instance MorgonPoddService keeps *)

\* line 129: episodes[:50]
FEED_LIMIT == 50
\* most episodes in the episodes directory
MaxEpisodes == 51
\* most calls of generate_feed on one instance
MaxFeedCalls == 2

\* lines 126-129: the episodes by pub_date, newest first, the first 50 of them;
\* an episode is named by its pub_date
RECURSIVE NewestFirst(_, _)
NewestFirst(episodes, n) ==
  IF episodes = {} \/ n = 0 THEN <<>>
  ELSE << MaxOf(episodes) >> \o NewestFirst(episodes \ {MaxOf(episodes)}, n - 1)

FeedOtherVars ==
  << text, max_chars, use_dialogue_api, pc, path, segments, music_cues,
     dialogue_inputs, dialogue_chunks, chunk_music_mapping, calls,
     chunk_files, output_file, track_file_exists, sequence,
     normalized_files, norm_index, stages, raised, warnings, uploaded,
     combineVars, libraryVars, scrapeVars >>

\* MorgonPoddService.__init__ line 34: RSSGenerator() with an empty feed,
\* before the first episode
InitFeed ==
  /\ text = <<>>
  /\ max_chars = 1000
  /\ use_dialogue_api = TRUE
  /\ pc = "feed"
  /\ Idle
  /\ CombineIdle
  /\ LibraryIdle
  /\ ScrapeIdle
  /\ meta_files = {}
  /\ fg_entries = <<>>
  /\ feed_xml = <<>>
  /\ feed_calls = 0

\* main.py line 81: generate_episode_metadata writes the *_meta.json of the
\* episode of this run
WriteEpisodeMetadata ==
  /\ Cardinality(meta_files) < MaxEpisodes
  /\ meta_files' = meta_files \cup { Cardinality(meta_files) + 1 }
  /\ UNCHANGED << fg_entries, feed_xml, feed_calls >>
  /\ UNCHANGED FeedOtherVars

\* lines 132-140: load_all_episodes adds an entry to self.fg for each of the
\* newest 50 episodes (add_episode, line 63), then the feed is written
GenerateFeed ==
  /\ feed_calls < MaxFeedCalls
  /\ fg_entries' = fg_entries \o NewestFirst(meta_files, FEED_LIMIT)
  /\ feed_xml' = << fg_entries' >>
  /\ feed_calls' = feed_calls + 1
  /\ UNCHANGED meta_files
  /\ UNCHANGED FeedOtherVars

NextFeed == WriteEpisodeMetadata \/ GenerateFeed

SpecFeed == InitFeed /\ [][NextFeed]_vars

----------------------------------------------------------------------------
(* Properties of the chunker *)

RECURSIVE Flatten(_)
Flatten(chunks) ==
  IF chunks = <<>> THEN <<>> ELSE Head(chunks) \o Flatten(Tail(chunks))

RECURSIVE TotalChars(_)
TotalChars(chunk) ==
  IF chunk = <<>> THEN 0 ELSE Len(Head(chunk).text) + TotalChars(Tail(chunk))

\* the 0-based positions in the dialogue stream at which a chunk begins
ChunkStartPositions ==
  { ChunkStart(dialogue_chunks, c) : c \in 0..(Len(dialogue_chunks) - 1) }

\* C1: the chunks, concatenated in order, are the dialogue inputs exactly:
\* no unit is dropped, duplicated or reordered.
C1_ChunksConcatenateToInputs ==
  pc = "chunked" => Flatten(dialogue_chunks) = dialogue_inputs

\* a script with a forced music break, a chunk of two units and two chunks
C1_Witness ==
  /\ pc = "chunked"
  /\ Len(dialogue_chunks) >= 2
  /\ \E c \in 1..Len(dialogue_chunks) : Len(dialogue_chunks[c]) >= 2
  /\ DOMAIN chunk_music_mapping # {}
  /\ Flatten(dialogue_chunks) = dialogue_inputs

\* C3: a chunk of two or more units stays within max_chars, and a unit
\* longer than max_chars is alone in its chunk, its text unchanged.
C3_LimitIsSoft ==
  pc = "chunked" =>
    /\ \A c \in 1..Len(dialogue_chunks) :
         Len(dialogue_chunks[c]) >= 2 => TotalChars(dialogue_chunks[c]) <= max_chars
    /\ \A k \in 1..Len(dialogue_inputs) :
         Len(dialogue_inputs[k].text) > max_chars =>
           \E c \in 1..Len(dialogue_chunks) :
             /\ ChunkStart(dialogue_chunks, c - 1) = k - 1
             /\ dialogue_chunks[c] = <<dialogue_inputs[k]>>

\* one unit above max_chars alone in its chunk, beside a chunk of two units
C3_Witness ==
  /\ pc = "chunked"
  /\ \E c \in 1..Len(dialogue_chunks) :
       /\ Len(dialogue_chunks[c]) = 1
       /\ Len(dialogue_chunks[c][1].text) > max_chars
  /\ \E c \in 1..Len(dialogue_chunks) :
       Len(dialogue_chunks[c]) >= 2 /\ TotalChars(dialogue_chunks[c]) <= max_chars

\* the positions of the script at which a music marker begins
MarkerStarts(t) == { i \in 1..Len(t) : MarkerAt(t, i) }

\* the number of dialogue units of the stream that begin before position i
UnitsBefore(t, i) ==
  Len(build_complete_dialogue_inputs(remove_music_markers(SubSeq(t, 1, i - 1))))

\* C2: the dialogue unit that follows a music marker of the script, at
\* position p > 0 of the dialogue stream, is the first unit of a chunk, so
\* that no chunk holds units from both sides of a marker.
C2_MarkerStartsChunk ==
  pc = "chunked" =>
    \A i \in MarkerStarts(text) :
      LET p == UnitsBefore(text, i)
      IN (p > 0 /\ p < Len(dialogue_inputs)) => p \in ChunkStartPositions

\* C23: no chunk is empty, whether a marker stands before all dialogue,
\* markers stand side by side or there is no dialogue at all, and no provider
\* call is made with an empty list of inputs.
C23_NoEmptyChunk ==
  /\ \A c \in 1..Len(dialogue_chunks) : dialogue_chunks[c] # <<>>
  /\ \A i \in 1..Len(calls) : calls[i].inputs # <<>>

\* two markers side by side before the first dialogue unit, one chunk, one call
C23_Witness ==
  /\ path = "dialogue"
  /\ music_positions_of(text) = <<0, 0>>
  /\ Len(dialogue_chunks) = 1
  /\ Len(calls) = 1

\* the first unit of chunk c + 1 stands at a music position
BreakForMusic(c) ==
  InSeq(ChunkStart(dialogue_chunks, c), music_positions_of(text))

\* chunk c with the first unit of chunk c + 1 would be longer than max_chars
BreakForLength(c) ==
  TotalChars(dialogue_chunks[c])
    + Len(dialogue_inputs[ChunkStart(dialogue_chunks, c) + 1].text) > max_chars

\* C25: a chunk ends only where the next unit stands at a music position or
\* would take the chunk above max_chars.
C25_ChunksAreMaximal ==
  pc = "chunked" =>
    \A c \in 1..(Len(dialogue_chunks) - 1) : BreakForMusic(c) \/ BreakForLength(c)

\* three chunks: one ended for a music position alone, one for length alone
C25_Witness ==
  /\ pc = "chunked"
  /\ Len(dialogue_chunks) = 3
  /\ \E c \in 1..2 : BreakForMusic(c) /\ ~BreakForLength(c)
  /\ \E c \in 1..2 : BreakForLength(c) /\ ~BreakForMusic(c)

\* chunk_music_mapping.get(c, [])
ListedUnder(c) ==
  IF c \in DOMAIN chunk_music_mapping THEN chunk_music_mapping[c] ELSE <<>>

\* the chunks (0-based) that list position p
ChunksListing(p) ==
  { c \in 0..(Len(dialogue_chunks) - 1) : InSeq(p, ListedUnder(c)) }

\* C26: each chunk lists the music positions of its range of units, in
\* script order and as often as they occur; a position below the number of
\* units is listed under the one chunk that holds that unit (which begins
\* there if the position is above 0), a position at the end under none.
C26_MappingListsPositionsInRange ==
  pc = "chunked" =>
    LET mp == music_positions_of(text)
        first(c) == ChunkStart(dialogue_chunks, c)
        last(c) == ChunkStart(dialogue_chunks, c + 1) - 1
        InRange(c) == SelectSeq(mp, LAMBDA p : first(c) <= p /\ p <= last(c))
    IN /\ DOMAIN chunk_music_mapping \subseteq 0..(Len(dialogue_chunks) - 1)
       /\ \A c \in 0..(Len(dialogue_chunks) - 1) : ListedUnder(c) = InRange(c)
       /\ \A c \in DOMAIN chunk_music_mapping : chunk_music_mapping[c] # <<>>
       /\ \A i \in 1..Len(mp) :
            IF mp[i] < Len(dialogue_inputs)
            THEN /\ Cardinality(ChunksListing(mp[i])) = 1
                 /\ \A c \in ChunksListing(mp[i]) :
                      /\ first(c) <= mp[i] /\ mp[i] <= last(c)
                      /\ mp[i] > 0 => first(c) = mp[i]
            ELSE ChunksListing(mp[i]) = {}

\* a marker before the first unit and a marker before the second: each is
\* listed under the chunk that begins there
C26_Witness ==
  /\ pc = "chunked"
  /\ music_positions_of(text) = <<0, 1>>
  /\ DOMAIN chunk_music_mapping = {0, 1}
  /\ chunk_music_mapping[0] = <<0>>
  /\ chunk_music_mapping[1] = <<1>>

----------------------------------------------------------------------------
(* Properties of the parser *)

\* the reference reading of a script, line by line: a line "<Name>:" or
\* "<Name>: <text>" without leading whitespace is a speaker line, a line
\* that is one music marker is a marker line, any other line is unprefixed
FirstColon(line) == MinOf({ i \in 1..Len(line) : line[i] = ":" })

RefSpeakerLine(line) ==
  /\ Contains(line, ":")
  /\ FirstColon(line) > 1
  /\ \A i \in 1..(FirstColon(line) - 1) : IsLetter(line[i])
  /\ (FirstColon(line) = Len(line) \/ line[FirstColon(line) + 1] = SP)

RefMarkerLine(line) ==
  LET l == Strip(line)
  IN MarkerAt(l, 1) /\ MarkerEnd(l, 1) = Len(l)

RefSegment(speaker, lines) == [speaker |-> speaker, content |-> JoinWith(lines, SP)]

\* open: a speaker line has opened a segment that no marker has closed
RECURSIVE RefLoop(_, _, _, _, _, _)
RefLoop(lines, k, out, open, speaker, content) ==
  LET closed == IF open /\ content # <<>>
                THEN Append(out, RefSegment(speaker, content)) ELSE out
  IN IF k > Len(lines) THEN closed
     ELSE IF Strip(lines[k]) = <<>>
     THEN RefLoop(lines, k + 1, out, open, speaker, content)
     ELSE IF RefMarkerLine(lines[k])
     THEN RefLoop(lines, k + 1, closed, FALSE, <<>>, <<>>)
     ELSE IF RefSpeakerLine(lines[k])
     THEN LET rest == Strip(SubMarkers(
                        SubSeq(lines[k], FirstColon(lines[k]) + 1, Len(lines[k])), 1))
          IN RefLoop(lines, k + 1, closed, TRUE,
                     SubSeq(lines[k], 1, FirstColon(lines[k]) - 1),
                     IF rest # <<>> THEN <<rest>> ELSE <<>>)
     ELSE RefLoop(lines, k + 1, out, open, speaker,
                  IF open THEN Append(content, Strip(lines[k])) ELSE content)

ReferenceReading(t) == RefLoop(SplitOn(t, NL), 1, <<>>, FALSE, <<>>, <<>>)

\* the speaker/text sequence of the parsed segments, music dropped
RECURSIVE DialogueOf(_)
DialogueOf(segs) ==
  IF segs = <<>> THEN <<>>
  ELSE IF Head(segs).is_music THEN DialogueOf(Tail(segs))
  ELSE <<[speaker |-> Head(segs).speaker, content |-> Head(segs).content]>>
       \o DialogueOf(Tail(segs))

\* C5: dropping the music segments of parse_conversation(S) leaves the
\* speaker/text sequence of the reference reading of S, and every music
\* segment is one marker line, never merged with dialogue.
C5_ParseMatchesReference ==
  pc \in {"parsed", "chunked"} =>
    /\ DialogueOf(segments) = ReferenceReading(text)
    /\ \A k \in 1..Len(segments) :
         segments[k].is_music => RefMarkerLine(segments[k].content)

\* the line opens a marker that nothing on the line closes, and no speaker
\* stands before it
IsMalformedMarkerLine(line) ==
  /\ Len(line) > Len(MUSIK_OPEN)
  /\ SubSeq(line, 1, Len(MUSIK_OPEN)) = MUSIK_OPEN
  /\ ~Contains(line, "]")

\* the segments read from the first k lines of the script
ParsedUpTo(k) == parse_conversation(LinesToText(SubSeq(SplitOn(text, NL), 1, k)))

\* a dialogue segment is open after the first k lines
SegmentOpenAfter(k) ==
  /\ ParsedUpTo(k) # <<>>
  /\ ~ParsedUpTo(k)[Len(ParsedUpTo(k))].is_music

\* segs with the line joined to the text of its last segment
ContinuedBy(segs, line) ==
  [segs EXCEPT ![Len(segs)].content = @ \o <<SP>> \o line]

\* C22: a marker line that no bracket closes is ordinary text: it gives no
\* music segment, and where a segment is open its text goes to that segment.
C22_MalformedMarkerIsDialogue ==
  pc = "parsed" =>
    \A k \in 1..Len(SplitOn(text, NL)) :
      IsMalformedMarkerLine(SplitOn(text, NL)[k]) =>
        /\ \A i \in 1..Len(segments) :
             segments[i].is_music => segments[i].content # SplitOn(text, NL)[k]
        /\ SegmentOpenAfter(k - 1) =>
             ParsedUpTo(k) = ContinuedBy(ParsedUpTo(k - 1), SplitOn(text, NL)[k])

\* the text a begins the text b
BeginsWith(b, a) == Len(a) <= Len(b) /\ SubSeq(b, 1, Len(a)) = a

\* the dialogue units counted by lines 208-221 in the original script
CountedUnits == DialogueOf(segments)

\* C29: the dialogue units counted in the original script and the dialogue
\* inputs built from the marker-stripped text are equally many, and the k-th
\* of each starts at the same speaker line: same speaker, and the input
\* begins with the words the counted unit holds.
C29_PositionsIndexTheInputs ==
  pc = "chunked" =>
    /\ Len(CountedUnits) = Len(dialogue_inputs)
    /\ \A k \in 1..Len(CountedUnits) :
         k <= Len(dialogue_inputs) =>
           /\ VoiceFor(CountedUnits[k].speaker) = dialogue_inputs[k].voice_id
           /\ BeginsWith(dialogue_inputs[k].text, Strip(CountedUnits[k].content))

----------------------------------------------------------------------------
(* Properties of the episode run *)

TheCue == Cue(TrackOf(TRACK_ID))

\* the dialogue unit of a speaker line of the scripts
UnitOfLine(line) ==
  IF line = LINE_ANNA
  THEN DialogueInput(<<"H","e","j","!">>, "voice_anna")
  ELSE DialogueInput(<<"G","o","d"," ","m","o","r","g","o","n","!">>, "voice_erik")

\* C4: for a script <segment A>, <marker of a catalogued track>, <segment B>
\* with both segments within max_chars the chunks are exactly [A] and [B],
\* the map lists the marker at the boundary between chunk 0 and chunk 1
\* (position 1, the first unit of chunk 1), and the assembly puts the track
\* after chunk 0 and before chunk 1.
C4_TrackBetweenChunks ==
  \A a \in {LINE_ANNA, LINE_ERIK}, b \in {LINE_ANNA, LINE_ERIK} :
    ( /\ path = "dialogue"
      /\ text = LinesToText(<<a, LINE_MUSIC, b>>)
      /\ Len(UnitOfLine(a).text) <= max_chars
      /\ Len(UnitOfLine(b).text) <= max_chars )
    => /\ dialogue_chunks = << <<UnitOfLine(a)>>, <<UnitOfLine(b)>> >>
       /\ chunk_music_mapping = (1 :> <<1>>)
       /\ ChunkStart(dialogue_chunks, 1) = 1
       /\ music_cues = <<TheCue>>
       /\ (pc = "normalize" /\ track_file_exists[TRACK_ID]) =>
            sequence = << DialogueElement(0), MusicElement(TheCue), DialogueElement(1) >>

\* the script of the specification's example, assembled
C4_Witness ==
  /\ path = "dialogue"
  /\ text = LinesToText(<<LINE_ANNA, LINE_MUSIC, LINE_ERIK>>)
  /\ max_chars = 1000
  /\ pc = "normalize"
  /\ track_file_exists[TRACK_ID]
  /\ sequence = << DialogueElement(0), MusicElement(TheCue), DialogueElement(1) >>

\* the lines of the script that match "<Name>: "
SpeakerLineCount(t) ==
  LET lines == SplitOn(t, NL)
  IN Cardinality({ k \in 1..Len(lines) : RefSpeakerLine(lines[k]) })

\* C6: generate_audio takes the conversational path if and only if at
\* least two lines of the text match the speaker pattern.
C6_ConversationIffTwoSpeakerLines ==
  path # "none" =>
    (path \in {"dialogue", "fallback"} <=> SpeakerLineCount(text) >= 2)

\* integrate_music_with_speech has concatenated and removed the chunk files
Integrated ==
  /\ output_file # NoFile
  /\ output_file # <<>>
  /\ output_file[1].kind = "concat"

\* C7: one provider call per chunk, in ascending chunk order, each after
\* the audio of the chunk before it has been written, and the i-th chunk
\* file holds the audio of chunk i.
C7_OneCallPerChunkInOrder ==
  path = "dialogue" =>
    /\ Len(calls) <= Len(dialogue_chunks)
    /\ \A i \in 1..Len(calls) : calls[i].inputs = dialogue_chunks[i]
    /\ ~Integrated =>
         /\ Len(chunk_files) <= Len(calls)
         /\ Len(calls) <= Len(chunk_files) + 1
         /\ \A i \in 1..Len(chunk_files) :
              chunk_files[i] = ProviderAudio(dialogue_chunks[i]) /\ calls[i].ok
    /\ pc \notin {"synth", "raised"} => Len(calls) = Len(dialogue_chunks)

\* three chunks synthesized, three files stored
C7_Witness ==
  /\ path = "dialogue"
  /\ pc = "synth"
  /\ Len(dialogue_chunks) >= 3
  /\ Len(calls) = Len(dialogue_chunks)
  /\ Len(chunk_files) = Len(dialogue_chunks)
  /\ dialogue_chunks[1] # dialogue_chunks[2]

ProviderFailed == \E i \in 1..Len(calls) : ~calls[i].ok

\* C8: a provider failure for a chunk aborts the audio stage: the run has
\* raised, the failed call is the last call, no episode audio exists, no
\* stage after the intro has run and nothing more happens.
C8_ProviderFailureAborts ==
  ProviderFailed =>
    /\ raised /\ pc = "raised"
    /\ \A i \in 1..Len(calls) : calls[i].ok <=> i < Len(calls)
    /\ output_file = NoFile
    /\ stages = <<"scrape", "script", "intro">>
    /\ ~ENABLED Next

\* the call for the third chunk fails after two chunks were synthesized
C8_Witness ==
  /\ path = "dialogue"
  /\ ProviderFailed
  /\ Len(calls) = 3
  /\ Len(chunk_files) = 2
  /\ raised

\* a music segment of the script names a track of the catalogue
Resolves(segment) ==
  LET ids == IdMatches(segment.content, 1)
  IN ids # <<>> /\ InLibrary(Lower(ids[1]))

\* the 0-based index of the chunk that begins at position d
ChunkAt(d) ==
  CHOOSE c \in 0..(Len(dialogue_chunks) - 1) : ChunkStart(dialogue_chunks, c) = d

\* the script walked in order: each chunk where its first unit stands, each
\* resolved marker where it stands
RECURSIVE ExpectedLoop(_, _, _)
ExpectedLoop(segs, k, dialogue_count) ==
  IF k > Len(segs) THEN <<>>
  ELSE IF segs[k].is_music
  THEN (IF Resolves(segs[k])
        THEN <<MusicElement(Cue(TrackOf(Lower(IdMatches(segs[k].content, 1)[1]))))>>
        ELSE <<>>)
       \o ExpectedLoop(segs, k + 1, dialogue_count)
  ELSE (IF dialogue_count \in ChunkStartPositions
        THEN <<DialogueElement(ChunkAt(dialogue_count))>> ELSE <<>>)
       \o ExpectedLoop(segs, k + 1, dialogue_count + 1)

ExpectedSequence == ExpectedLoop(parse_conversation(text), 1, 0)

\* C9: every marker of the script that resolved to a track stands in the
\* assembly sequence exactly once, in script order, between the two chunks
\* that surround it in the script.
C9_MusicBetweenItsChunks ==
  (pc = "normalize" /\ \A id \in TrackIds : track_file_exists[id]) =>
    sequence = ExpectedSequence

RECURSIVE DialogueIndices(_)
DialogueIndices(seq) ==
  IF seq = <<>> THEN <<>>
  ELSE IF Head(seq).type = "dialogue"
  THEN <<Head(seq).chunk>> \o DialogueIndices(Tail(seq))
  ELSE DialogueIndices(Tail(seq))

\* C10: the assembly sequence holds every synthesized chunk exactly once,
\* in ascending chunk order.
C10_AllChunksInOrder ==
  pc = "normalize" =>
    /\ Len(chunk_files) = Len(dialogue_chunks)
    /\ DialogueIndices(sequence) = [i \in 1..Len(chunk_files) |-> i - 1]

\* two chunks with a track among them
C10_Witness ==
  /\ pc = "normalize"
  /\ Len(chunk_files) = 2
  /\ \E k \in 1..Len(sequence) : sequence[k].type = "music"
  /\ DialogueIndices(sequence) = <<0, 1>>

----------------------------------------------------------------------------
(* Properties of the assembly when files are missing *)

AudioStageDone == \E k \in 1..Len(stages) : stages[k] = "audio"

IsDialogueAudio(a) == a.kind = "dialogue"

\* the dialogue audio the episode file holds, in order
DialogueAudioOf(file) ==
  IF Integrated THEN SelectSeq(file[1].inputs, IsDialogueAudio)
  ELSE [i \in 1..Len(file) |-> Normalized(file[i])]

\* C12: when the audio stage has returned an episode file on the dialogue
\* path, that file holds the audio of every chunk: a chunk whose file is
\* missing at assembly makes the stage fail instead.
C12_MissingDialogueAudioIsFatal ==
  (path = "dialogue" /\ AudioStageDone) =>
    DialogueAudioOf(output_file)
      = [i \in 1..Len(dialogue_chunks) |-> Normalized(ProviderAudio(dialogue_chunks[i]))]

\* the cues the loop of line 622 reaches with n chunks
CuesReached(n) ==
  LET slots == Cardinality({ i \in 0..(n - 1) : MusicAfterChunk(i) })
  IN 1..(IF slots < Len(music_cues) THEN slots ELSE Len(music_cues))

\* a warning names the music file of the track
MissingTrackLogged(id) ==
  \E j \in 1..Len(warnings) :
    /\ warnings[j].kind = "file_not_found"
    /\ warnings[j].ref[1].type = "music"
    /\ warnings[j].ref[1].id = id

IsPresent(seg) == seg.type = "dialogue" \/ track_file_exists[seg.id]

\* C13: a resolved track whose file is missing when the sequence is built
\* is logged and left out; the sequence is otherwise the one built with
\* every file present, and the final audio is that sequence normalized.
C13_MissingMusicLoggedAndSkipped ==
  /\ pc = "normalize" =>
       /\ sequence = SelectSeq(BuildSequence(Len(chunk_files), music_cues,
                                             [id \in TrackIds |-> TRUE]), IsPresent)
       /\ \A k \in CuesReached(Len(chunk_files)) :
            ~track_file_exists[music_cues[k].id] => MissingTrackLogged(music_cues[k].id)
  /\ (Integrated /\ Len(normalized_files) = Len(sequence)) =>
       output_file[1].inputs
         = [k \in 1..Len(sequence) |->
              Normalized(IF sequence[k].type = "dialogue"
                         THEN ProviderAudio(dialogue_chunks[sequence[k].chunk + 1])
                         ELSE MusicAudio(sequence[k].id))]

\* C20: the uploader puts nothing before the stages scrape, script, intro,
\* audio, combine, metadata and feed have completed in that order, and a
\* run that has raised has left nothing in the bucket.
C20_NoPartialUpload ==
  /\ uploaded # {} =>
       SubSeq(stages, 1, 7)
         = <<"scrape", "script", "intro", "audio", "combine", "metadata", "feed">>
  /\ raised => uploaded = {}

\* the step issues the concatenation command and it succeeds
ConcatenationIssued == ~Integrated /\ Integrated'

\* C24: the concatenation is issued only when every element of the assembly
\* sequence has been normalized; its inputs are the normalized elements in
\* sequence order.
C24_ConcatenationAfterAllNormalized ==
  [][ConcatenationIssued =>
       /\ norm_index = Len(sequence)
       /\ Len(normalized_files) = Len(sequence)
       /\ \A i \in 1..Len(normalized_files) :
            normalized_files[i] = Normalized(ElementAudio(sequence[i]))
       /\ output_file'[1].inputs = normalized_files]_vars

\* the audio of every chunk, in chunk order: what lines 140-144 write
SpeechOnly ==
  [i \in 1..Len(dialogue_chunks) |-> ProviderAudio(dialogue_chunks[i])]

\* C27: when the audio stage has returned on the dialogue path without a
\* concatenated episode (integration not attempted, or failed at some
\* step), the file it returned holds the audio of every chunk in order.
C27_FailedIntegrationLeavesSpeech ==
  (AudioStageDone /\ path = "dialogue" /\ ~Integrated) => output_file = SpeechOnly

----------------------------------------------------------------------------
(* Properties of the cue extraction *)

\* the references of a script, in order: what stands between "[MUSIK:" and
\* "]" on each marker line
RECURSIVE ReferencesOf(_)
ReferencesOf(lines) ==
  IF lines = <<>> THEN <<>>
  ELSE (IF RefMarkerLine(Head(lines))
        THEN LET l == Strip(Head(lines)) IN <<Strip(SubSeq(l, 8, Len(l) - 1))>>
        ELSE <<>>)
       \o ReferencesOf(Tail(lines))

IsIdRef(ref) == Len(ref) = 8 /\ \A i \in 1..8 : IsHex(ref[i])

\* the tracks a reference names: by ID for 8 hex digits, otherwise by
\* artist and title, whatever the case of the letters
RefTracks(ref) ==
  IF IsIdRef(ref) THEN { t \in library_tracks : t.id = Lower(ref) }
  ELSE { t \in library_tracks :
           Lower(ref) = Lower(t.artist) \o <<" ", "-", " ">> \o Lower(t.title) }

RECURSIVE ResolvedIds(_)
ResolvedIds(refs) ==
  IF refs = <<>> THEN <<>>
  ELSE (IF RefTracks(Head(refs)) # {}
        THEN <<(CHOOSE t \in RefTracks(Head(refs)) : TRUE).id>> ELSE <<>>)
       \o ResolvedIds(Tail(refs))

CueIds(cues) == [k \in 1..Len(cues) |-> cues[k].id]

ScriptReferences == ReferencesOf(SplitOn(text, NL))

\* C19: every reference of the script is resolved on its own, by ID for 8
\* hex digits and otherwise by artist and title without regard to case; the
\* cues are the tracks of the references that resolve, in script order.
C19_EachReferenceResolvedOnItsOwn ==
  pc \in {"extracted", "assembled"} =>
    CueIds(music_cues) = ResolvedIds(ScriptReferences)

\* the warning names the reference
WarningNames(w, ref) ==
  IF w.kind = "id_not_found" THEN w.ref[1] = Lower(ref)
  ELSE w.kind = "track_not_found" /\ w.ref[1] \o <<" ", "-", " ">> \o w.ref[2] = ref

UnresolvedAt(refs) == { k \in 1..Len(refs) : RefTracks(refs[k]) = {} }

\* C11: the extraction and the assembly complete, the sequence holds no
\* element for a reference that does not resolve, and there is exactly one
\* warning for each reference that does not resolve.
C11_OneWarningPerUnresolvedReference ==
  pc \in {"extracted", "assembled"} =>
    LET refs == ScriptReferences
    IN /\ Len(warnings) = Cardinality(UnresolvedAt(refs))
       /\ \A k \in UnresolvedAt(refs) :
            Cardinality({ j \in 1..Len(warnings) : WarningNames(warnings[j], refs[k]) })
              = Cardinality({ j \in UnresolvedAt(refs) : refs[j] = refs[k] })
       /\ \A e \in 1..Len(sequence) :
            sequence[e].type = "music" =>
              \E k \in 1..Len(refs) : \E t \in RefTracks(refs[k]) : t.id = sequence[e].id

----------------------------------------------------------------------------
(* Properties of combine_intro_and_main *)

\* the state of the specification's machine a position belongs to
MachineState(p) ==
  IF InSteps(TrySteps, p) THEN (IF p = "crossfade" THEN "CrossfadeMix" ELSE "Normalizing")
  ELSE IF InSteps(FallbackSteps, p) THEN "FallbackConcat"
  ELSE IF p = "speech_only" THEN "SpeechOnly"
  ELSE IF p = "returned" THEN "Done"
  ELSE "Other"

\* a call that hangs stays in the state it hung in
MachineStateOf(trace) ==
  IF trace[Len(trace)] = "hung" THEN MachineState(trace[Len(trace) - 1])
  ELSE MachineState(trace[Len(trace)])

ListedTransitions ==
  { <<"Normalizing", "CrossfadeMix">>,
    <<"CrossfadeMix", "Done">>, <<"CrossfadeMix", "FallbackConcat">>,
    <<"FallbackConcat", "Done">>, <<"FallbackConcat", "SpeechOnly">>,
    <<"SpeechOnly", "Done">> }

TakesOnly(transitions) ==
  MachineStateOf(combine_trace') # MachineStateOf(combine_trace)
    => <<MachineStateOf(combine_trace), MachineStateOf(combine_trace')>> \in transitions

\* every call whose tools all return reaches Done
ReachesDone == <>(CombinePos \in {"returned", "hung"})

\* C14 as stated: the call takes the listed transitions only and reaches
\* Done whenever every tool invocation returns.
C14_ListedTransitionsOnly ==
  /\ [][TakesOnly(ListedTransitions)]_vars
  /\ ReachesDone

\* C14 as amended: the call takes the listed transitions and Normalizing ->
\* FallbackConcat (a failed conversion) only, and reaches Done whenever
\* every tool invocation returns.
C14_TransitionsWithNormalizingFailure ==
  /\ [][TakesOnly(ListedTransitions \cup {<<"Normalizing", "FallbackConcat">>})]_vars
  /\ ReachesDone

Follows(trace, p, q) ==
  \E k \in 1..(Len(trace) - 1) : trace[k] = p /\ trace[k + 1] = q

\* a conversion failed, the fallback ran and the call returned its output
C14_Witness ==
  /\ Follows(combine_trace, "norm_main", "fb_norm_intro")
  /\ CombinePos = "returned"
  /\ combine_result = "output"

\* a step of the fallback was not followed by the next step or, for the
\* last one, by the written output
FallbackFailed ==
  \E k \in 1..(Len(combine_trace) - 1) :
    /\ InSteps(FallbackSteps, combine_trace[k])
    /\ combine_trace[k + 1] # "hung"
    /\ IF StepIndex(FallbackSteps, combine_trace[k]) < Len(FallbackSteps)
       THEN combine_trace[k + 1]
              # FallbackSteps[StepIndex(FallbackSteps, combine_trace[k]) + 1]
       ELSE combine_files["output"] = Absent \/ combine_files["output"][1].kind # "concat"

\* C15: after the crossfade and the fallback have both failed the call
\* returns the main file; no step of the call ever writes the main file, and
\* the file returned is a whole audio file.
C15_SpeechOnlyIsMainUntouched ==
  /\ [](CombinePos = "returned" =>
          /\ (Follows(combine_trace, "crossfade", "fb_norm_intro") /\ FallbackFailed)
               => combine_result = "main"
          /\ combine_result = "main" => combine_files["main"][1] \in MainAudios
          /\ combine_files[combine_result] # Absent
          /\ combine_files[combine_result][1] # Partial)
  /\ [][combine_files["main"]' = combine_files["main"]]_vars

\* the crossfade failed, the fallback concatenation failed and left part of
\* the output, and the main file was returned
C15_Witness ==
  /\ Follows(combine_trace, "crossfade", "fb_norm_intro")
  /\ Follows(combine_trace, "fb_concat", "speech_only")
  /\ CombinePos = "returned"
  /\ combine_result = "main"
  /\ combine_files["output"] = <<Partial>>

\* C16: no call of an external process keeps the run for ever: the call has
\* returned or can take a step.
C16_NoToolBlocksTheRun ==
  CombinePos = "returned" \/ ENABLED NextCombine

----------------------------------------------------------------------------
(* Properties of the music library *)

\* the last two calls were add_track with the same bytes, and the first of
\* them returned
AddedTwice ==
  /\ last_op.op = "add" /\ last_op.prev.op = "add"
  /\ ~last_op.prev.raised
  /\ last_op.content # Absent
  /\ last_op.content = last_op.prev.content

\* the step is a call of add_track that makes AddedTwice true
AddTrackAgain == last_op'.n = last_op.n + 1 /\ AddedTwice'

\* C17: add_track called twice with the same bytes returns the same ID both
\* times; after the second call the library holds one entry for that ID, and
\* the entry and the files are as the first call left them.
C17_AddTrackTwiceSameId ==
  [][AddTrackAgain =>
       /\ ~last_op'.raised
       /\ last_op'.returned = last_op.returned
       /\ Cardinality({ id \in TrackIds :
                          /\ library'[id] # NoTrack
                          /\ library'[id][1].id = last_op'.returned[1] }) = 1
       /\ library' = library
       /\ music_files' = music_files]_vars

\* the second call came from another path with another artist and title, and
\* the entry still names the first
C17_Witness ==
  /\ AddedTwice
  /\ last_op.file_path # last_op.prev.file_path
  /\ last_op.artist # last_op.prev.artist
  /\ library[last_op.returned[1]][1].artist = last_op.prev.artist
  /\ music_files[library[last_op.returned[1]][1].path] = last_op.content

\* the step is a call of add_track
AddTrackCalled == last_op'.n = last_op.n + 1 /\ last_op'.op = "add"

RemoveTrackCalled == last_op'.n = last_op.n + 1 /\ last_op'.op = "remove"

\* C18: remove_track of an unknown ID returns False and changes nothing; of
\* a known ID it returns True and the entry is gone, whatever became of the
\* file.
C18_RemoveTrackContract ==
  [][RemoveTrackCalled =>
       IF library[last_op'.track_id] = NoTrack
       THEN /\ ~last_op'.raised
            /\ last_op'.returned = << FALSE >>
            /\ UNCHANGED << library, saved_library, music_files >>
       ELSE /\ ~last_op'.raised
            /\ last_op'.returned = << TRUE >>
            /\ library'[last_op'.track_id] = NoTrack]_vars

----------------------------------------------------------------------------
(* Properties of scrape_all *)

\* the source a result belongs to
SourceOf(result) == sources[result.source]

\* task i has failed
Failed(i) == \E k \in 1..Len(completed) : completed[k].task = i /\ ~completed[k].ok

\* C28: scrape_all returns one result per source, in ascending priority of
\* the sources, whatever the order the tasks ended in; the result of a source
\* whose fetch failed has no items, every other result has its items.
C28_OneResultPerSourceByPriority ==
  pc = "scraped" =>
    /\ Len(scrape_results) = Len(sources)
    /\ \A i \in 1..Len(sources) :
         Cardinality({ k \in 1..Len(scrape_results) : scrape_results[k].source = i }) = 1
    /\ \A k \in 1..Len(scrape_results) :
         scrape_results[k].items = <<>> <=> Failed(scrape_results[k].source)
    /\ \A k \in 1..(Len(scrape_results) - 1) :
         PriorityOf(SourceOf(scrape_results[k]))
           <= PriorityOf(SourceOf(scrape_results[k + 1]))

----------------------------------------------------------------------------
(* Properties of the feed *)

\* the step is a call of generate_feed
FeedGenerated == feed_calls' = feed_calls + 1

\* C30: after each call of generate_feed on the instance the feed written
\* holds every episode at most once and at most 50 entries: the newest
\* episodes by pub_date.
C30_FeedHoldsNewestOnce ==
  [][FeedGenerated =>
       /\ \A i, j \in 1..Len(feed_xml'[1]) :
            feed_xml'[1][i] = feed_xml'[1][j] => i = j
       /\ Len(feed_xml'[1]) <= FEED_LIMIT
       /\ { feed_xml'[1][i] : i \in 1..Len(feed_xml'[1]) }
            = { e \in meta_files :
                  Cardinality({ f \in meta_files : f > e }) < FEED_LIMIT }]_vars

====
